---- MODULE Spec2Model ----
(***************************************************************************)
(* NotifyOps: GitHub webhook -> AI summary -> Slack notification.          *)
(* Model of internal/github/handler.go, internal/ai/summarizer.go, the     *)
(* Slack notifier with interactive callbacks and the issue processor.      *)
(*                                                                         *)
(* Strings are sequences of one-character strings, so that prefix tests,   *)
(* slicing, splitting and number parsing are computed as the code computes *)
(* them.  HMAC-SHA256 followed by hex encoding is modelled as an ideal     *)
(* keyed hash: one opaque digest symbol per (secret, payload) pair.        *)
(***************************************************************************)
EXTENDS Integers, Sequences, FiniteSets, TLC

VARIABLES
  \* --- signature verification, applied as a pure function ---
  vsSecret, vsPayload, vsSignature, vsResult,
  \* --- webhook handler (Handler.HandleWebhook) and detached tasks ---
  webhookSecret,   \* Handler.webhookSecret
  nReq,            \* number of webhook requests received so far
  cur,             \* the request handled last: input and what the handler did
  responses,       \* request id -> HTTP status written (0 = none yet)
  tasks,           \* request id -> state of the detached processing task
  crashed,         \* the process died of an unrecovered panic in a goroutine
  \* --- Slack interactive callbacks (Notifier.HandleInteractiveMessage) ---
  nCb, cb,
  \* --- summary parsing, applied as a pure function ---
  prResponse, prResult,
  \* --- message rendering (Summarizer.GenerateSlackMessage) ---
  gsIssueData, gsSummary, gsResult,
  \* --- message sending (Notifier.SendIssueSummary) ---
  sendMessage, sendPostOk, sendResult,
  \* --- prompt construction (buildPrompt, buildSystemPrompt) ---
  bpIssueData, bpStyle, bpRuns,
  \* --- prompt style endpoints ---
  style,           \* Summarizer.style
  cfgPromptStyle,  \* cfg.OpenAI.PromptStyle
  nStyleReq,       \* number of style requests received so far
  styleReq,        \* the style request handled last and its response
  \* --- enrichment (Handler.enrichIssueData), applied as a pure function ---
  enIssue, enAction, enEventType, enAnswer, enResult,
  \* --- a style change racing with the construction of a system prompt ---
  styleWrite,      \* the assignment s.style = style under way
  sysPrompt        \* the buildSystemPrompt call under way

sigVars   == <<vsSecret, vsPayload, vsSignature, vsResult>>
hookVars  == <<webhookSecret, nReq, cur, responses, tasks, crashed>>
cbVars    == <<nCb, cb>>
parseVars == <<prResponse, prResult>>
renderVars == <<gsIssueData, gsSummary, gsResult>>
sendVars   == <<sendMessage, sendPostOk, sendResult>>
promptVars == <<bpIssueData, bpStyle, bpRuns>>
styleVars  == <<style, cfgPromptStyle, nStyleReq, styleReq>>
enrichVars == <<enIssue, enAction, enEventType, enAnswer, enResult>>
raceVars   == <<styleWrite, sysPrompt>>
vars      == <<sigVars, hookVars, cbVars, parseVars, renderVars, sendVars,
               promptVars, styleVars, enrichVars, raceVars>>

----------------------------------------------------------------------------
(* Strings                                                                 *)

\* strings.HasPrefix
HasPrefix(s, p) == Len(s) >= Len(p) /\ SubSeq(s, 1, Len(p)) = p

\* strings.HasSuffix
HasSuffix(s, p) == Len(s) >= Len(p) /\ SubSeq(s, Len(s) - Len(p) + 1, Len(s)) = p

\* s[n:]
DropFirst(s, n) == SubSeq(s, n + 1, Len(s))

\* the literal "sha256="
Sha256Prefix == <<"s", "h", "a", "2", "5", "6", "=">>

\* the literal "sha1=" (the legacy X-Hub-Signature scheme)
Sha1Prefix == <<"s", "h", "a", "1", "=">>

----------------------------------------------------------------------------
(* Signature verification: Handler.verifySignature                         *)

NoSecret == ""
Secrets  == {"test-secret", "wrong-secret"}
Payloads == {"p1", "p2", "p3"}

\* hex.EncodeToString(hmac(sha256, secret, payload)): the digest text of an
\* ideal keyed hash, one symbol per (secret, payload).
HexHmac(secret, payload) == << <<"mac", secret, payload>> >>

\* generateSignature of the handler tests: what GitHub sends.
generateSignature(secret, payload) == Sha256Prefix \o HexHmac(secret, payload)

verifySignatureInvertedSecretTest(secret, payload, signature) ==
  IF secret # NoSecret THEN TRUE
  ELSE IF ~HasPrefix(signature, Sha256Prefix) THEN FALSE
  ELSE HexHmac(secret, payload) = DropFirst(signature, 7)

verifySignatureNoPrefixCheck(secret, payload, signature) ==
  IF secret = NoSecret THEN TRUE
  ELSE HexHmac(secret, payload) = DropFirst(signature, 7)

verifySignature(secret, payload, signature) ==
  IF secret = NoSecret THEN TRUE
  ELSE IF ~HasPrefix(signature, Sha256Prefix) THEN FALSE
  ELSE HexHmac(secret, payload) = DropFirst(signature, 7)

\* Signature headers a sender can produce: well-formed ones computed with any
\* secret over any payload, and malformed ones.
Signatures ==
  { generateSignature(s, p) : s \in Secrets \cup {NoSecret}, p \in Payloads }
  \cup { HexHmac(s, p) : s \in Secrets, p \in Payloads }               \* digest without prefix
  \cup { Sha1Prefix \o HexHmac(s, p) : s \in Secrets, p \in Payloads } \* other scheme
  \cup { <<>>, Sha256Prefix, <<"i", "n", "v", "a", "l", "i", "d">> }
  \cup { <<"x", "x", "x", "x", "x", "x", "x">> \o HexHmac(s, p) : s \in Secrets, p \in Payloads }

----------------------------------------------------------------------------
(* Go values                                                               *)

\* A nil pointer / absent JSON member, and a present one.
None    == <<>>
Some(x) == <<x>>

\* A Go slice: nil, or non-nil with elements.
NilSlice     == [isNil |-> TRUE,  elems |-> <<>>]
MkSlice(seq) == [isNil |-> FALSE, elems |-> seq]

\* append(slice, x): a nil slice becomes non-nil.
Append_(sl, x) == [isNil |-> FALSE, elems |-> Append(sl.elems, x)]

----------------------------------------------------------------------------
(* Summary parsing: Summarizer.parseSummaryResponse                        *)
(* The model's reply is a sequence of lexical tokens: whitespace, the      *)
(* three-backtick fence, the language tag "json", one JSON object, the     *)
(* JSON literal null, or text that is not JSON.                            *)

WS      == [t |-> "ws"]
FENCE   == [t |-> "fence"]
LANG    == [t |-> "json"]
JNULL   == [t |-> "null"]
JUNK    == [t |-> "junk"]
Obj(o)  == [t |-> "obj", v |-> o]

\* strings.TrimSpace
RECURSIVE TrimLeft(_)
TrimLeft(s) == IF s # <<>> /\ Head(s) = WS THEN TrimLeft(Tail(s)) ELSE s
RECURSIVE TrimRight(_)
TrimRight(s) ==
  IF s # <<>> /\ s[Len(s)] = WS THEN TrimRight(SubSeq(s, 1, Len(s) - 1)) ELSE s
TrimSpace(s) == TrimRight(TrimLeft(s))

\* strings.TrimPrefix / strings.TrimSuffix
TrimPrefix(s, p) == IF HasPrefix(s, p) THEN DropFirst(s, Len(p)) ELSE s
TrimSuffix(s, p) == IF HasSuffix(s, p) THEN SubSeq(s, 1, Len(s) - Len(p)) ELSE s

\* Fixed default strings of parseSummaryResponse.
DefaultPriority     == "medium"
DefaultCategory     == "other"
DefaultCodeContext  == "No specific code context available"
DefaultSuggestedFix == "No fix suggestion provided."
\* 0.5, confidence being modelled in hundredths
DefaultConfidence   == 50

\* encoding/json binds an object member to a struct field when the member's
\* key equals the field's JSON name, ignoring case.  The JSON name is the tag
\* if there is one (SuggestedFix: "suggested_fix") and the Go field name
\* otherwise.  Keys are listed in the spellings the inputs use.
JsonKeysOf ==
  [ Title        |-> {"title", "Title"},
    Summary      |-> {"summary", "Summary"},
    Priority     |-> {"priority", "Priority"},
    Category     |-> {"category", "Category"},
    ActionItems  |-> {"actionitems", "ActionItems"},
    CodeContext  |-> {"codecontext", "CodeContext"},
    Confidence   |-> {"confidence", "Confidence"},
    SuggestedFix |-> {"suggested_fix"} ]

\* The decoded value of a struct field: the member bound to it, else the
\* field's zero value.
FieldOf(o, field, zero) ==
  LET ks == JsonKeysOf[field] \cap DOMAIN o
  IN  IF ks = {} THEN zero ELSE o[CHOOSE k \in ks : TRUE]

\* The zero IssueSummary (var summary IssueSummary).
ZeroSummary ==
  [ Title |-> "", Summary |-> "", Priority |-> "", Category |-> "",
    ActionItems |-> NilSlice, CodeContext |-> "", Confidence |-> 0,
    SuggestedFix |-> "" ]

\* json.Unmarshal([]byte(response), &summary): ok only for exactly one JSON
\* value; an object fills the fields, null leaves the zero struct.
jsonUnmarshal(r) ==
  IF Len(r) = 1 /\ r[1].t = "obj" THEN
    LET o == r[1].v IN
    [ ok |-> TRUE,
      summary |->
        [ Title        |-> FieldOf(o, "Title", ""),
          Summary      |-> FieldOf(o, "Summary", ""),
          Priority     |-> FieldOf(o, "Priority", ""),
          Category     |-> FieldOf(o, "Category", ""),
          ActionItems  |-> FieldOf(o, "ActionItems", NilSlice),
          CodeContext  |-> FieldOf(o, "CodeContext", ""),
          Confidence   |-> FieldOf(o, "Confidence", 0),
          SuggestedFix |-> FieldOf(o, "SuggestedFix", "") ] ]
  ELSE IF Len(r) = 1 /\ r[1].t = "null" THEN [ok |-> TRUE, summary |-> ZeroSummary]
  ELSE [ok |-> FALSE, summary |-> ZeroSummary]

\* A variant that sets the priority to its default unconditionally.
FillDefaultsOverwritePriority(s) ==
  [ Title        |-> s.Title,
    Summary      |-> s.Summary,
    Priority     |-> DefaultPriority,
    Category     |-> IF s.Category = "" THEN DefaultCategory ELSE s.Category,
    ActionItems  |-> IF s.ActionItems.isNil THEN MkSlice(<<>>) ELSE s.ActionItems,
    CodeContext  |-> IF s.CodeContext = "" THEN DefaultCodeContext ELSE s.CodeContext,
    Confidence   |-> IF s.Confidence = 0 THEN DefaultConfidence ELSE s.Confidence,
    SuggestedFix |-> IF s.SuggestedFix = "" THEN DefaultSuggestedFix ELSE s.SuggestedFix ]

\* The default-fill of parseSummaryResponse (summarizer.go 573-591).
FillDefaults(s) ==
  [ Title        |-> s.Title,
    Summary      |-> s.Summary,
    Priority     |-> IF s.Priority = "" THEN DefaultPriority ELSE s.Priority,
    Category     |-> IF s.Category = "" THEN DefaultCategory ELSE s.Category,
    ActionItems  |-> IF s.ActionItems.isNil THEN MkSlice(<<>>) ELSE s.ActionItems,
    CodeContext  |-> IF s.CodeContext = "" THEN DefaultCodeContext ELSE s.CodeContext,
    Confidence   |-> IF s.Confidence = 0 THEN DefaultConfidence ELSE s.Confidence,
    SuggestedFix |-> IF s.SuggestedFix = "" THEN DefaultSuggestedFix ELSE s.SuggestedFix ]

\* A variant that validates the title only.
RequiredPresentTitleOnly(s) == s.Title # ""

\* The required-field validation (summarizer.go 569).
RequiredPresent(s) == s.Title # "" /\ s.Summary # ""

\* Result: err = "" and a summary, or an error kind and no summary.
parseSummaryResponse(response) ==
  LET r1 == TrimSpace(response)
      r2 == TrimPrefix(r1, <<FENCE, LANG>>)
      r3 == TrimSuffix(r2, <<FENCE>>)
      r4 == TrimSpace(r3)
      d  == jsonUnmarshal(r4)
  IN  IF ~d.ok THEN [err |-> "unmarshal", summary |-> None]
      ELSE IF ~RequiredPresent(d.summary)
        THEN [err |-> "missing_required", summary |-> None]
      ELSE [err |-> "", summary |-> Some(FillDefaults(d.summary))]

\* JSON objects the model may return: every combination of absent, empty
\* and supplied members.
TitleMembers      == {<<>>, <<"">>, <<"T">>}
SummaryMembers    == {<<>>, <<"">>, <<"S">>}
PriorityMembers   == {<<>>, <<"high">>}
CategoryMembers   == {<<>>, <<"bug">>}
ItemsMembers      == {<<>>, <<MkSlice(<<"Fix the bug", "Add tests">>)>>}
ContextMembers    == {<<>>, <<"The issue is in the main function">>}
FixMembers        == {<<>>, <<"Replace the problematic code">>}
ConfidenceMembers == {<<>>, <<0>>, <<85>>}

\* one member, or none
Member(k, m) == IF m = <<>> THEN <<>> ELSE k :> m[1]

JsonObjects ==
  { Member("title", t) @@ Member("summary", s) @@ Member("priority", p)
      @@ Member("category", c) @@ Member("action_items", a)
      @@ Member("code_context", x) @@ Member("suggested_fix", f)
      @@ Member("confidence", n) :
      t \in TitleMembers, s \in SummaryMembers, p \in PriorityMembers,
      c \in CategoryMembers, a \in ItemsMembers, x \in ContextMembers,
      f \in FixMembers, n \in ConfidenceMembers }

\* The ways a reply can carry an object.
Wrappings(o) ==
  { <<Obj(o)>>,
    <<WS, Obj(o), WS>>,
    <<FENCE, LANG, WS, Obj(o), WS, FENCE>>,
    <<FENCE, WS, Obj(o), WS, FENCE>>,
    <<JUNK, WS, Obj(o)>> }

ModelTexts ==
  UNION { Wrappings(o) : o \in JsonObjects } \cup { <<>>, <<JUNK>>, <<JNULL>> }

----------------------------------------------------------------------------
(* Webhook payloads                                                        *)

\* processableActions of shouldProcessAction.
processableActions == {"opened", "edited", "reopened", "closed", "created", "updated"}

shouldProcessActionAcceptAll(action) == TRUE

shouldProcessAction(action) == action \in processableActions

\* Actions GitHub sends that are not in the list (handler tests).
OtherActions == {"deleted"}

TheRepository ==
  [fullName |-> <<"a", "c", "m", "e", "/", "w">>, owner |-> "acme", name |-> "w"]

\* The issue object of a payload: with an embedded repository, or without.
Issues ==
  { [number |-> 7, repository |-> Some(TheRepository)],
    [number |-> 7, repository |-> None] }

\* A body that is not decodable JSON.
BadJson == [json |-> FALSE]

\* Decodable bodies: action and issue each present or absent.
JsonBodies ==
  { [json |-> TRUE, action |-> a, issue |-> i] :
      a \in {None} \cup { Some(x) : x \in processableActions \cup OtherActions },
      i \in {None} \cup { Some(x) : x \in Issues } }

Bodies == {BadJson} \cup JsonBodies

EventTypes == {"issues", "issue_comment", "push"}

\* X-Hub-Signature-256 values tried against a body.
SignaturesFor(body) ==
  { generateSignature("test-secret", body),
    generateSignature("wrong-secret", body),
    <<"i", "n", "v", "a", "l", "i", "d">> }

----------------------------------------------------------------------------
(* Tracker API: what it answers during one enrichment                      *)

\* Upper bound on the commits a search finds.
MaxHits == 10

\* The page size asked of Search.Commits (handler.go 246): the tracker
\* answers at most that many hits.
SearchPerPage == 10

\* The numbers of hits one search can answer.
HitCounts == 0..(IF MaxHits < SearchPerPage THEN MaxHits ELSE SearchPerPage)

\* The SHA of the i-th search hit: ten characters, the last one naming i.
ShaOf(i) == <<"0", "1", "2", "3", "4", "5", "6", "7">> \o <<"h", i>>

\* hits: for each search hit, whether Repositories.GetCommit resolves it.
\* shortSha: the resolved commits come back without a SHA (GetSHA() = "").
ApiAnswers ==
  { a \in [ commentsOk : BOOLEAN, searchOk : BOOLEAN,
            hits : UNION { [1..n -> BOOLEAN] : n \in HitCounts },
            filesOk : BOOLEAN, shortSha : BOOLEAN ] :
      /\ (~a.searchOk => a.hits = <<>>)
      /\ ((\A i \in DOMAIN a.hits : ~a.hits[i]) => a.filesOk /\ ~a.shortSha) }

\* The commit Repositories.GetCommit answers for the i-th hit.
RepositoryCommit(a, i) == [hit |-> i, sha |-> IF a.shortSha THEN <<>> ELSE ShaOf(i)]

\* fetchIssueComments: (comments, err)
fetchIssueComments(a) ==
  IF a.commentsOk
    THEN [val |-> MkSlice(<< <<"comment", 1>> >>), err |-> FALSE]
    ELSE [val |-> NilSlice, err |-> TRUE]

\* The loop of fetchRelatedCommits over hits i..: resolved commits are
\* appended, unresolved ones skipped.
\* A variant that gives up at the first hit that does not resolve.
RECURSIVE ResolveFromStopAtFailure(_, _, _)
ResolveFromStopAtFailure(a, i, acc) ==
  IF i > Len(a.hits) \/ ~a.hits[i] THEN acc
  ELSE ResolveFromStopAtFailure(a, i + 1, Append_(acc, RepositoryCommit(a, i)))

RECURSIVE ResolveFrom(_, _, _)
ResolveFrom(a, i, acc) ==
  IF i > Len(a.hits) THEN acc
  ELSE ResolveFrom(a, i + 1,
                   IF a.hits[i] THEN Append_(acc, RepositoryCommit(a, i)) ELSE acc)

\* A variant that reports a failed search as an empty result.
fetchRelatedCommitsNoError(a) ==
  IF ~a.searchOk THEN [val |-> NilSlice, err |-> FALSE]
  ELSE [val |-> ResolveFrom(a, 1, NilSlice), err |-> FALSE]

\* fetchRelatedCommits: (repoCommits, err)
fetchRelatedCommits(a) ==
  IF ~a.searchOk THEN [val |-> NilSlice, err |-> TRUE]
  ELSE [val |-> ResolveFrom(a, 1, NilSlice), err |-> FALSE]

\* fetchCommitFiles: (files, err)
fetchCommitFiles(a, sha) ==
  IF a.filesOk THEN [val |-> MkSlice(<< <<"file", sha>> >>), err |-> FALSE]
  ELSE [val |-> NilSlice, err |-> TRUE]

\* Tracker API calls made by one enrichment, in order.
EnrichCalls(a, commits) ==
  << [op |-> "ListComments"], [op |-> "SearchCommits"] >>
  \o (IF a.searchOk THEN [i \in 1..Len(a.hits) |-> [op |-> "GetCommit", sha |-> ShaOf(i)]]
      ELSE <<>>)
  \o (IF Len(commits.elems) > 0
        THEN << [op |-> "GetCommitFiles", sha |-> commits.elems[1].sha] >> ELSE <<>>)

\* Handler.enrichIssueData.  issue is None for a nil *github.Issue.
\* Result: data (None on error), err, the API calls made and the
\* RecordGitHubAPIError operations recorded.
enrichIssueData(issue, action, eventType, a) ==
  IF issue = None THEN
    [data |-> None, err |-> TRUE, calls |-> <<>>, apiErrors |-> <<>>]
  ELSE
    LET comments == fetchIssueComments(a)
        commits  == fetchRelatedCommits(a)
        fetched  == Len(commits.val.elems) > 0
        files    == IF fetched THEN fetchCommitFiles(a, commits.val.elems[1].sha)
                    ELSE [val |-> NilSlice, err |-> FALSE]
    IN  [ data |-> Some([ Issue      |-> issue[1],
                          Comments   |-> comments.val,
                          Commits    |-> commits.val,
                          Files      |-> files.val,
                          Repository |-> issue[1].repository,
                          EventType  |-> eventType,
                          Action     |-> action ]),
          err |-> FALSE,
          calls |-> EnrichCalls(a, commits.val),
          apiErrors |->
            (IF comments.err THEN <<"fetch_comments">> ELSE <<>>)
            \o (IF commits.err THEN <<"fetch_commits">> ELSE <<>>)
            \o (IF files.err THEN <<"fetch_files">> ELSE <<>>) ]

\* Handler.handleIssuesEvent / handleIssueCommentEvent (the two differ only
\* in the event type passed on).  Result: (issueData, status, err) and the
\* ghost fields decoded, enriched, calls, apiErrors.
handleEvent(body, eventType, a) ==
  IF ~body.json THEN
    [ issueData |-> None, status |-> "error", err |-> TRUE, decoded |-> TRUE,
      enriched |-> FALSE, calls |-> <<>>, apiErrors |-> <<>> ]
  ELSE IF body.action = None \/ ~shouldProcessAction(body.action[1]) THEN
    [ issueData |-> None, status |-> "skipped", err |-> FALSE, decoded |-> TRUE,
      enriched |-> FALSE, calls |-> <<>>, apiErrors |-> <<>> ]
  ELSE
    LET e == enrichIssueData(body.issue, body.action[1], eventType, a) IN
    [ issueData |-> e.data,
      status    |-> IF e.err THEN "error" ELSE "success",
      err       |-> e.err,
      decoded   |-> TRUE,
      enriched  |-> TRUE,
      calls     |-> e.calls,
      apiErrors |-> e.apiErrors ]

----------------------------------------------------------------------------
(* Handler.HandleWebhook                                                   *)

\* Upper bound on the webhook requests of one run.
MaxRequests == 2

StatusOK                  == 200
StatusBadRequest          == 400
StatusUnauthorized        == 401
StatusInternalServerError == 500

SupportedEventAny(eventType) == TRUE

\* The cases of "switch eventType" that decode the body (handler.go 95-99).
SupportedEvent(eventType) == eventType \in {"issues", "issue_comment"}

ResponseStatusAlwaysError(err) == StatusInternalServerError

\* handler.go 106-114: the status written once the event was handled.
ResponseStatus(err) == IF err THEN StatusInternalServerError ELSE StatusOK

\* What one run of the handler did when it returned before handling the event.
EarlyReturn(status) ==
  [ status |-> status, decoded |-> FALSE, enriched |-> FALSE, normStatus |-> "",
    calls |-> <<>>, apiErrors |-> <<>>, webhookMetrics |-> <<>>,
    issueData |-> None, spawned |-> 0, panicked |-> FALSE ]

\* The whole handler on one request with the tracker answering a.
\* handler.go 118 reads issueData.Action through the pointer before the nil
\* test of line 121: with a nil issueData the handler panics there, after the
\* status was written and before the metric is recorded.
WebhookOutcome(secret, req, a) ==
  IF ~req.readable THEN EarlyReturn(StatusBadRequest)
  ELSE IF ~verifySignature(secret, req.body, req.signature)
    THEN EarlyReturn(StatusUnauthorized)
  ELSE IF ~SupportedEvent(req.eventType) THEN EarlyReturn(StatusOK)
  ELSE
    LET r        == handleEvent(req.body, req.eventType, a)
        status   == IF r.err THEN "error" ELSE r.status
        panicked == r.issueData = None
    IN  [ status     |-> ResponseStatus(r.err),
          decoded    |-> r.decoded,
          enriched   |-> r.enriched,
          normStatus |-> status,
          calls      |-> r.calls,
          apiErrors  |-> r.apiErrors,
          webhookMetrics |->
            IF panicked THEN <<>>
            ELSE << [ eventType |-> req.eventType,
                      action    |-> r.issueData[1].Action,
                      status    |-> status ] >>,
          issueData  |-> r.issueData,
          spawned    |-> IF ~panicked /\ r.issueData # None /\ ~r.err THEN 1 ELSE 0,
          panicked   |-> panicked ]

\* No request in hand.
Idle == [id |-> 0]

\* pc: none, spawned, summarized, done.  data and summary are what the
\* goroutine holds while it runs (of the issue data, the members its steps
\* read); chatCalls, renders and posts count the chat-completion requests,
\* renderings and chat.postMessage calls it made; steps lists, in the order
\* they were taken, the steps taken for the webhook.
NoTask ==
  [ pc |-> "none", outcome |-> "", data |-> None, summary |-> None,
    chatCalls |-> 0, renders |-> 0, posts |-> 0, steps |-> <<>> ]

\* go h.processIssueData(issueData): the goroutine starts with the issue
\* data, once enrichIssueData has returned it.
SpawnedTask(issueData) ==
  [ pc |-> "spawned", outcome |-> "",
    data |-> Some([ Issue |-> issueData.Issue, Repository |-> issueData.Repository,
                    Commits |-> issueData.Commits ]),
    summary |-> None, chatCalls |-> 0, renders |-> 0, posts |-> 0,
    steps |-> <<"enrichment">> ]

\* The tracker answers nothing when it is not asked.
NoAnswer ==
  [ commentsOk |-> TRUE, searchOk |-> TRUE, hits |-> <<>>, filesOk |-> TRUE,
    shortSha |-> FALSE ]

\* Requests a sender can make to a handler configured with secret.  An
\* unreadable body stream carries no bytes.  Without a configured secret the
\* header is not looked at, and one header stands for all.
Requests(secret) ==
  UNION { { [readable |-> TRUE, body |-> b, signature |-> sg, eventType |-> e] :
              sg \in IF secret = NoSecret THEN {<<"i", "n", "v", "a", "l", "i", "d">>}
                     ELSE SignaturesFor(b),
              e \in EventTypes } : b \in Bodies }
  \cup { [readable |-> FALSE, body |-> BadJson, signature |-> <<>>, eventType |-> "issues"] }

\* The tracker answers tried in the webhook pipeline: no commit found,
\* every call failing, a failed and a successful resolution followed by a
\* failing file fetch, and a commit that comes back without a SHA.
PipelineAnswers ==
  { NoAnswer,
    [ commentsOk |-> FALSE, searchOk |-> FALSE, hits |-> <<>>, filesOk |-> TRUE,
      shortSha |-> FALSE ],
    [ commentsOk |-> TRUE, searchOk |-> TRUE, hits |-> <<FALSE, TRUE>>,
      filesOk |-> FALSE, shortSha |-> FALSE ],
    [ commentsOk |-> TRUE, searchOk |-> TRUE, hits |-> <<TRUE>>, filesOk |-> TRUE,
      shortSha |-> TRUE ] }

\* The tracker answers tried for a request.  Only an enrichment asks the
\* tracker.  The answers are varied for the "opened" event of an issue; the
\* other enriched requests are run with a tracker that answers every call and
\* finds no commit.
AnswersFor(secret, req) ==
  IF /\ req.readable
     /\ verifySignature(secret, req.body, req.signature)
     /\ SupportedEvent(req.eventType)
     /\ handleEvent(req.body, req.eventType, NoAnswer).calls # <<>>
     /\ req.body.action = Some("opened")
     /\ req.eventType = "issues"
  THEN PipelineAnswers ELSE {NoAnswer}

\* POST /webhook/github: one request is handled from reading the body to the
\* return of the handler; an accepted one leaves a detached task behind
\* (go h.processIssueData).
HandleWebhook ==
  /\ ~crashed
  /\ cur.id = 0
  /\ nReq < MaxRequests
  /\ \E req \in Requests(webhookSecret) :
     \E a \in AnswersFor(webhookSecret, req) :
       LET o == WebhookOutcome(webhookSecret, req, a) IN
       /\ nReq' = nReq + 1
       /\ cur' = [id |-> nReq + 1, req |-> req, out |-> o]
       /\ responses' = [responses EXCEPT ![nReq + 1] = o.status]
       /\ tasks' = [tasks EXCEPT ![nReq + 1] =
                      IF o.spawned > 0 THEN SpawnedTask(o.issueData[1])
                      ELSE NoTask]
  /\ UNCHANGED <<webhookSecret, crashed, sigVars, cbVars, parseVars,
               renderVars, sendVars, promptVars, styleVars, enrichVars, raceVars>>

\* The HTTP exchange is over: the per-request record is discarded.
CompleteRequest ==
  /\ ~crashed
  /\ cur.id # 0
  /\ cur' = Idle
  /\ UNCHANGED <<webhookSecret, nReq, responses, tasks, crashed, sigVars, cbVars, parseVars,
               renderVars, sendVars, promptVars, styleVars, enrichVars, raceVars>>

----------------------------------------------------------------------------
(* Summarizer.GenerateSlackMessage                                         *)
(* A message is the Go map the summarizer builds: "blocks" holds a slice of *)
(* block maps.  A member that is missing, or not of the Go type a reader    *)
(* asserts, is None.  Texts are sequences of their parts.                   *)

\* priorityEmoji and categoryEmoji, glyphs written by name.
priorityEmoji ==
  [p \in {"high", "medium", "low"} |->
     CASE p = "high" -> "red_circle" [] p = "medium" -> "yellow_circle"
       [] OTHER -> "green_circle"]

categoryEmoji ==
  [c \in {"bug", "feature", "enhancement", "documentation", "security",
          "performance", "infrastructure", "other"} |->
     CASE c = "bug" -> "bug" [] c = "feature" -> "sparkles"
       [] c = "enhancement" -> "rocket" [] c = "documentation" -> "books"
       [] c = "security" -> "lock" [] c = "performance" -> "zap"
       [] c = "infrastructure" -> "building_construction"
       [] OTHER -> "clipboard"]

\* The glyph used when the table has no entry (summarizer.go 618 and 623).
GenericGlyph == "clipboard"

\* A variant that yields the key itself for a missing key.
MapIndexKeyForMissing(m, k) == IF k \in DOMAIN m THEN m[k] ELSE k

\* m[k] of a Go map[string]string: the zero string for a missing key.
MapIndex(m, k) == IF k \in DOMAIN m THEN m[k] ELSE ""

\* fmt.Sprintf("%d", n)
DigitChars == <<"0", "1", "2", "3", "4", "5", "6", "7", "8", "9">>
\* A variant that writes the last digit only.
ItoaLastDigit(n) == <<DigitChars[(n % 10) + 1]>>

RECURSIVE Itoa(_)
Itoa(n) ==
  IF n < 0 THEN <<"-">> \o Itoa(0 - n)
  ELSE IF n < 10 THEN <<DigitChars[n + 1]>>
  ELSE Itoa(n \div 10) \o <<DigitChars[(n % 10) + 1]>>

\* strings.Title(s): s with the first letter of each word in upper case.
Title(s) == <<"Title", s>>

UnknownRepository ==
  <<"U", "n", "k", "n", "o", "w", "n", " ", "R", "e", "p", "o", "s", "i", "t",
    "o", "r", "y">>

\* A block map and its members.
BlockMap(type, text, fields, elements) ==
  [isMap |-> TRUE, type |-> type, text |-> text, fields |-> fields,
   elements |-> elements]

\* A text object {"type": ..., "text": ...}.
TextMap(type, text) == [type |-> type, text |-> text]

\* A variant that renders no text for an empty list.
actionItemsTextBlankWhenEmpty(summary) ==
  [i \in 1..Len(summary.ActionItems.elems) |->
     <<"bullet", summary.ActionItems.elems[i]>>]

\* The text of the action-items section (summarizer.go 626-631): one bullet
\* line per item, or the fixed text.
actionItemsText(summary) ==
  IF Len(summary.ActionItems.elems) > 0
    THEN [i \in 1..Len(summary.ActionItems.elems) |->
            <<"bullet", summary.ActionItems.elems[i]>>]
    ELSE <<"None specified">>

\* One button of the actions block.
Button(label, actionID, value, url) ==
  [type |-> "button", text |-> Some(TextMap(Some("plain_text"), Some(label))),
   action_id |-> actionID, value |-> value, style |-> "primary", url |-> url]

GenerateSlackMessage(issueData, summary) ==
  LET e0       == MapIndex(priorityEmoji, summary.Priority)
      emoji    == IF e0 = "" THEN GenericGlyph ELSE e0
      c0       == MapIndex(categoryEmoji, summary.Category)
      catEmoji == IF c0 = "" THEN GenericGlyph ELSE c0
      repoName == IF issueData.Repository # None
                    THEN issueData.Repository[1].fullName ELSE UnknownRepository
      number   == issueData.Issue.number
      value    == repoName \o <<":">> \o Itoa(number)
      section(label, body) ==
        BlockMap(Some("section"), Some(TextMap(Some("mrkdwn"), Some(<<label, body>>))),
                 None, None)
  IN  [ hasBlocks |-> TRUE,
        goType |-> "[]map[string]interface{}",
        blocks |->
          << BlockMap(Some("header"),
                      Some(TextMap(Some("plain_text"),
                                   Some(<<emoji, catEmoji, "Issue #", number,
                                          summary.Title>>))),
                      None, None),
             BlockMap(Some("section"), None,
                      Some(<< TextMap(Some("mrkdwn"), Some(<<"*Repository:*", repoName>>)),
                              TextMap(Some("mrkdwn"), Some(<<"*Priority:*", Title(summary.Priority)>>)),
                              TextMap(Some("mrkdwn"), Some(<<"*Category:*", Title(summary.Category)>>)),
                              TextMap(Some("mrkdwn"),
                                      Some(<<"*Confidence:*", summary.Confidence, "%">>)) >>),
                      None),
             section("*Summary:*", summary.Summary),
             section("*Action Items:*", actionItemsText(summary)),
             section("*Code Context:*", summary.CodeContext),
             BlockMap(Some("actions"), None, None,
                      Some(<< Button("Review Issue", "review_issue", value, "html_url"),
                              Button("Suggest Fix", "suggest_fix", value, "") >>)) >> ]

----------------------------------------------------------------------------
\* Summaries and issue data handed to GenerateSlackMessage: every priority
\* and category of the two tables, values outside them, and action items
\* nil, empty and supplied.
RenderSummaries ==
  { [ Title |-> "T", Summary |-> "S", Priority |-> p, Category |-> c,
      ActionItems |-> a, CodeContext |-> DefaultCodeContext, Confidence |-> n,
      SuggestedFix |-> DefaultSuggestedFix ] :
      p \in {"high", "medium", "low", "urgent", "High", ""},
      c \in DOMAIN categoryEmoji \cup {"architecture", ""},
      a \in {NilSlice, MkSlice(<<>>), MkSlice(<<"Fix the bug">>),
             MkSlice(<<"Fix the bug", "Add tests">>)},
      n \in {DefaultConfidence, 85} }

\* Repository full names and issue numbers rendered: "owner/repo", names
\* with the other characters a full name can hold, and one with a colon.
RenderRepositories ==
  { [fullName |-> <<"o", "w", "n", "e", "r", "/", "r", "e", "p", "o">>,
     owner |-> "owner", name |-> "repo"],
    [fullName |-> <<"a", "-", "b", "/", "c", ".", "d", "_", "9">>,
     owner |-> "a-b", name |-> "c.d_9"],
    [fullName |-> <<"x", ":", "y", "/", "z">>, owner |-> "x:y", name |-> "z"] }

RenderNumbers == {0, 1, 42, 100, 1234567890, 0 - 3}

RenderIssues ==
  Issues \cup { [number |-> n, repository |-> Some(r)] :
                  n \in RenderNumbers, r \in RenderRepositories }

RenderIssueData ==
  { [ Issue |-> i, Repository |-> i.repository ] : i \in RenderIssues }

----------------------------------------------------------------------------
(* Notifier.SendIssueSummary                                               *)

\* Upper bound on the blocks of a generated document.
MaxBlocks == 3

\* slack.NewTextBlockObject for a text map: "plain_text" stays, every other
\* or missing type becomes "mrkdwn".
TextObject(type, text) ==
  [type |-> IF type = Some("plain_text") THEN "plain_text" ELSE "mrkdwn",
   text |-> text]

ConvertError == [err |-> TRUE, block |-> None]
Converted(b) == [err |-> FALSE, block |-> Some(b)]

convertHeaderBlock(blockMap) ==
  IF blockMap.text = None THEN ConvertError
  ELSE IF blockMap.text[1].text = None THEN ConvertError
  ELSE Converted([kind |-> "header",
                  text |-> TextObject(Some("plain_text"), blockMap.text[1].text[1])])

\* The fields of a section that carry a text; the others are passed over.
RECURSIVE SectionFieldsFrom(_, _, _)
SectionFieldsFrom(fields, i, acc) ==
  IF i > Len(fields) THEN acc
  ELSE SectionFieldsFrom(fields, i + 1,
         IF fields[i].text = None THEN acc
         ELSE Append(acc, TextObject(fields[i].type, fields[i].text[1])))

convertSectionBlock(blockMap) ==
  IF blockMap.text # None THEN
    IF blockMap.text[1].text = None THEN ConvertError
    ELSE Converted([kind |-> "section",
                    text |-> TextObject(blockMap.text[1].type, blockMap.text[1].text[1])])
  ELSE
    LET fields == IF blockMap.fields = None THEN <<>>
                  ELSE SectionFieldsFrom(blockMap.fields[1], 1, <<>>)
    IN  IF Len(fields) > 0 THEN Converted([kind |-> "section", fields |-> fields])
        ELSE ConvertError

\* The buttons of an actions block; elements of another type are passed over.
RECURSIVE ButtonsFrom(_, _, _)
ButtonsFrom(elements, i, acc) ==
  IF i > Len(elements) THEN acc
  ELSE ButtonsFrom(elements, i + 1,
         IF elements[i].type = "button"
           THEN Append(acc, [action_id |-> elements[i].action_id,
                             value |-> elements[i].value,
                             text |-> IF elements[i].text = None \/ elements[i].text[1].text = None
                                        THEN "" ELSE elements[i].text[1].text[1],
                             style |-> elements[i].style,
                             url |-> elements[i].url])
           ELSE acc)

convertActionsBlock(blockMap) ==
  IF blockMap.elements = None THEN ConvertError
  ELSE LET elements == ButtonsFrom(blockMap.elements[1], 1, <<>>) IN
       IF Len(elements) = 0
         THEN Converted([kind |-> "section",
                         text |-> TextObject(Some("mrkdwn"),
                                             "*No interactive buttons available*")])
         ELSE Converted([kind |-> "actions", elements |-> elements])

convertBlock(blockData) ==
  IF ~blockData.isMap THEN ConvertError
  ELSE IF blockData.type = None THEN ConvertError
  ELSE IF blockData.type[1] = "header" THEN convertHeaderBlock(blockData)
  ELSE IF blockData.type[1] = "section" THEN convertSectionBlock(blockData)
  ELSE IF blockData.type[1] = "actions" THEN convertActionsBlock(blockData)
  ELSE ConvertError

\* The loop of convertToSlackBlocks from block i on: the first block that
\* does not convert ends it with an error and no blocks.
RECURSIVE ConvertFrom(_, _, _)
ConvertFrom(blocksData, i, acc) ==
  IF i > Len(blocksData) THEN [err |-> FALSE, blocks |-> acc]
  ELSE LET c == convertBlock(blocksData[i]) IN
       IF c.err THEN [err |-> TRUE, blocks |-> <<>>]
       ELSE ConvertFrom(blocksData, i + 1, Append(acc, c.block[1]))

\* A variant that passes over a block it cannot convert.
RECURSIVE ConvertFromSkipping(_, _, _)
ConvertFromSkipping(blocksData, i, acc) ==
  IF i > Len(blocksData) THEN [err |-> FALSE, blocks |-> acc]
  ELSE LET c == convertBlock(blocksData[i]) IN
       ConvertFromSkipping(blocksData, i + 1,
                           IF c.err THEN acc ELSE Append(acc, c.block[1]))

convertToSlackBlocksSkipping(message) ==
  IF ~message.hasBlocks THEN [err |-> TRUE, blocks |-> <<>>]
  ELSE IF message.goType \notin {"[]interface{}", "[]map[string]interface{}"}
    THEN [err |-> TRUE, blocks |-> <<>>]
  ELSE ConvertFromSkipping(message.blocks, 1, <<>>)

convertToSlackBlocks(message) ==
  IF ~message.hasBlocks THEN [err |-> TRUE, blocks |-> <<>>]
  ELSE IF message.goType \notin {"[]interface{}", "[]map[string]interface{}"}
    THEN [err |-> TRUE, blocks |-> <<>>]
  ELSE ConvertFrom(message.blocks, 1, <<>>)

\* Notifier.SendIssueSummary with the chat platform accepting the post or
\* not.  Result: the error returned ("" for nil), the chat.postMessage calls
\* made and the RecordSlackError operations recorded.
SendIssueSummary(message, postOk) ==
  LET c == convertToSlackBlocks(message) IN
  IF c.err THEN
    [ err |-> "convert", posts |-> <<>>, slackErrors |-> <<"convert_blocks">>,
      slackMessages |-> <<>> ]
  ELSE
    [ err |-> IF postOk THEN "" ELSE "send",
      posts |-> << [blocks |-> c.blocks, text |-> "GitHub Issue Update"] >>,
      slackErrors |-> IF postOk THEN <<>> ELSE <<"send_message">>,
      slackMessages |-> << IF postOk THEN "success" ELSE "error" >> ]

\* Blocks a caller can put in a document: well-formed ones of the three
\* supported types, an actions block without buttons, one of a type the
\* notifier does not know, one without a type, one that is not a map, and
\* malformed header, section and actions blocks.
SampleButton == Button("Review Issue", "review_issue", <<"a", "/", "b", ":", "7">>, "")

SampleBlocks ==
  { BlockMap(Some("header"), Some(TextMap(Some("plain_text"), Some("h"))), None, None),
    BlockMap(Some("section"), Some(TextMap(Some("mrkdwn"), Some("s"))), None, None),
    BlockMap(Some("section"), None, Some(<<TextMap(None, Some("f"))>>), None),
    BlockMap(Some("actions"), None, None, Some(<<SampleButton>>)),
    BlockMap(Some("actions"), None, None, Some(<<>>)),
    BlockMap(Some("divider"), None, None, None),
    BlockMap(None, Some(TextMap(Some("mrkdwn"), Some("s"))), None, None),
    [isMap |-> FALSE, type |-> None, text |-> None, fields |-> None, elements |-> None],
    BlockMap(Some("header"), None, None, None),
    BlockMap(Some("section"), None, Some(<<TextMap(None, None)>>), None),
    BlockMap(Some("actions"), None, None, None) }

\* Messages handed to SendIssueSummary: a document of up to MaxBlocks blocks
\* held in either slice type, a message without "blocks", and one whose
\* "blocks" is not a slice.
Messages ==
  { m \in { [hasBlocks |-> TRUE, goType |-> t, blocks |-> d] :
              t \in {"[]interface{}", "[]map[string]interface{}"},
              d \in UNION { [1..n -> SampleBlocks] : n \in 0..MaxBlocks } } :
      \* a []map[string]interface{} holds maps only
      m.goType = "[]map[string]interface{}" =>
        \A i \in DOMAIN m.blocks : m.blocks[i].isMap }
  \cup { [hasBlocks |-> FALSE, goType |-> "", blocks |-> <<>>],
         [hasBlocks |-> TRUE, goType |-> "string", blocks |-> <<>>] }

----------------------------------------------------------------------------
(* Prompt styles and prompt construction                                   *)

\* A style without custom fields: make(map[string]string).
NoCustomFields == [k \in {} |-> ""]

PromptStyle(personality, analysisFocus, tone, detailLevel, customFields) ==
  [ Personality |-> personality, AnalysisFocus |-> analysisFocus, Tone |-> tone,
    DetailLevel |-> detailLevel, CustomFields |-> customFields ]

PredefinedPromptStyles ==
  [ master_analyst |->
      PromptStyle("MASTER ANALYST", "technical_impact", "professional",
                  "comprehensive", NoCustomFields),
    senior_developer |->
      PromptStyle("SENIOR DEVELOPER", "technical_impact", "friendly", "moderate",
                  NoCustomFields),
    devops_engineer |->
      PromptStyle("DEVOPS ENGINEER", "technical_impact", "professional",
                  "moderate", NoCustomFields),
    product_manager |->
      PromptStyle("PRODUCT MANAGER", "business_value", "friendly", "moderate",
                  NoCustomFields),
    security_expert |->
      PromptStyle("SECURITY EXPERT", "security_focus", "urgent", "comprehensive",
                  NoCustomFields),
    executive_summary |->
      PromptStyle("MASTER ANALYST", "business_value", "professional", "executive",
                  NoCustomFields),
    quick_triage |->
      PromptStyle("SENIOR DEVELOPER", "technical_impact", "concise", "concise",
                  NoCustomFields),
    performance_focused |->
      PromptStyle("DEVOPS ENGINEER", "performance_optimization", "professional",
                  "moderate", NoCustomFields),
    educational |->
      PromptStyle("SENIOR DEVELOPER", "technical_impact", "educational",
                  "comprehensive", NoCustomFields),
    startup_focused |->
      PromptStyle("PRODUCT MANAGER", "business_value", "friendly", "moderate",
                  [ k \in {"Company Stage", "Focus", "Constraints"} |->
                      CASE k = "Company Stage" -> "Early-stage startup"
                        [] k = "Focus" -> "Rapid iteration and user feedback"
                        [] OTHER -> "Limited resources and tight timelines" ]),
    enterprise_focused |->
      PromptStyle("MASTER ANALYST", "technical_impact", "professional",
                  "comprehensive",
                  [ k \in {"Company Stage", "Focus", "Constraints"} |->
                      CASE k = "Company Stage" -> "Enterprise organization"
                        [] k = "Focus" -> "Stability, compliance, and scalability"
                        [] OTHER -> "Complex approval processes and legacy systems" ]),
    security_critical |->
      PromptStyle("SECURITY EXPERT", "security_focus", "urgent", "comprehensive",
                  [ k \in {"Security Level", "Compliance", "Response Time"} |->
                      CASE k = "Security Level" -> "Critical security environment"
                        [] k = "Compliance" -> "Strict regulatory requirements"
                        [] OTHER -> "Immediate action required" ]) ]

DefaultPromptStyle ==
  PromptStyle("MASTER ANALYST", "technical_impact", "professional", "comprehensive",
              NoCustomFields)

\* GetPromptStyle(name): (style, exists); the zero style for an unknown name.
GetPromptStyleAcceptAll(name) ==
  IF name \in DOMAIN PredefinedPromptStyles
    THEN [style |-> PredefinedPromptStyles[name], exists |-> TRUE]
    ELSE [style |-> PromptStyle("", "", "", "", NoCustomFields), exists |-> TRUE]

GetPromptStyle(name) ==
  IF name \in DOMAIN PredefinedPromptStyles
    THEN [style |-> PredefinedPromptStyles[name], exists |-> TRUE]
    ELSE [style |-> PromptStyle("", "", "", "", NoCustomFields), exists |-> FALSE]

\* The text a "switch" over a style field selects: one fixed text per listed
\* case, and the text of the default branch for every other value.
SwitchText(what, value, cases) ==
  <<what, IF value \in cases THEN value ELSE "default">>

getPersonalityPrompt(st) ==
  SwitchText("personality", st.Personality,
             {"MASTER ANALYST", "SENIOR DEVELOPER", "DEVOPS ENGINEER",
              "PRODUCT MANAGER", "SECURITY EXPERT"})
getAnalysisFocusPrompt(st) ==
  SwitchText("focus", st.AnalysisFocus,
             {"technical_impact", "business_value", "security_focus",
              "performance_optimization"})
getTonePrompt(st) ==
  SwitchText("tone", st.Tone,
             {"professional", "friendly", "concise", "educational", "urgent"})
getDetailLevelPrompt(st) ==
  SwitchText("detail", st.DetailLevel,
             {"comprehensive", "moderate", "concise", "executive"})
getTitlePrompt(st) ==
  SwitchText("title", st.Personality,
             {"PRODUCT MANAGER", "SECURITY EXPERT", "DEVOPS ENGINEER"})
getSummaryPrompt(st) ==
  SwitchText("summary", st.Personality,
             {"PRODUCT MANAGER", "SECURITY EXPERT", "DEVOPS ENGINEER"})
getCodeContextPrompt(st) ==
  SwitchText("code_context", st.Personality,
             {"SENIOR DEVELOPER", "SECURITY EXPERT", "DEVOPS ENGINEER"})
getGuidelinesPrompt(st) ==
  SwitchText("guidelines", st.Personality,
             {"MASTER ANALYST", "SENIOR DEVELOPER", "DEVOPS ENGINEER",
              "PRODUCT MANAGER", "SECURITY EXPERT"})

\* The orders in which "for key, value := range m" can visit a Go map: the
\* language leaves the order unspecified and the runtime varies it from one
\* loop to the next.
RangeOrders(m) ==
  { o \in [1..Cardinality(DOMAIN m) -> DOMAIN m] :
      \A i, j \in DOMAIN o : i # j => o[i] # o[j] }

\* getCustomFieldsPrompt with the map visited in the given order.
getCustomFieldsPrompt(st, order) ==
  IF Cardinality(DOMAIN st.CustomFields) = 0 THEN <<>>
  ELSE <<"Additional Context:">>
       \o [i \in 1..Len(order) |-> <<"-", order[i], st.CustomFields[order[i]]>>]

\* buildSystemPrompt: the parts in the order of the format string.
buildSystemPrompt(st, order) ==
  << getPersonalityPrompt(st), getAnalysisFocusPrompt(st), getTonePrompt(st),
     getDetailLevelPrompt(st), getCustomFieldsPrompt(st, order),
     getTitlePrompt(st), getSummaryPrompt(st), getCodeContextPrompt(st),
     getGuidelinesPrompt(st) >>

\* Upper bound on the comments an issue has.
MaxComments == 7

\* The page size asked of Issues.ListComments (handler.go 236).
CommentsPerPage == 100

\* Issues.ListComments as fetchIssueComments calls it: the first page, with
\* no sort or direction asked for; the tracker lists an issue's comments in
\* the order they were created, oldest first.  A comment is identified by
\* its creation time.
ListComments(n) ==
  [i \in 1..(IF n < CommentsPerPage THEN n ELSE CommentsPerPage) |->
     [createdAt |-> i, login |-> "user", body |-> <<"body", i>>]]

\* The first n elements of a sequence ("if i >= n { break }").
FirstN(seq, n) == SubSeq(seq, 1, IF Len(seq) < n THEN Len(seq) ELSE n)

\* The comments buildPrompt renders (summarizer.go 196-199).
promptComments(comments) == FirstN(comments, 5)

\* The parts of one comment entry.
CommentEntry(c) ==
  << <<"### Comment by", c.login, c.createdAt>>, <<"text", c.body>> >>

RECURSIVE Flatten(_)
Flatten(seqs) == IF seqs = <<>> THEN <<>> ELSE Head(seqs) \o Flatten(Tail(seqs))

\* commit.GetSHA()[:8] panics on a SHA shorter than 8 bytes.
ShaTooShort(commit) == Len(commit.sha) < 8

\* The commits loop of buildPrompt (summarizer.go 210-217) slices a SHA that
\* is too short.
ShaSlicePanics(issueData) ==
  \E i \in DOMAIN FirstN(issueData.Commits.elems, 3) :
    ShaTooShort(issueData.Commits.elems[i])

\* Summarizer.buildPrompt: the parts joined into the user prompt, or a panic.
buildPrompt(issueData) ==
  LET comments == promptComments(issueData.Comments.elems)
      commits  == FirstN(issueData.Commits.elems, 3)
  IN  IF ShaSlicePanics(issueData)
        THEN [panicked |-> TRUE, parts |-> <<>>]
      ELSE
        [ panicked |-> FALSE,
          parts |->
            << <<"## Issue Information">>,
               <<"Repository:", IF issueData.Repository = None THEN <<>>
                                ELSE issueData.Repository[1].fullName>>,
               <<"Issue #", issueData.Issue.number>> >>
            \o << <<"## Issue Description">> >>
            \o (IF Len(issueData.Comments.elems) > 0
                  THEN << <<"## Recent Comments">> >>
                       \o Flatten([i \in 1..Len(comments) |-> CommentEntry(comments[i])])
                  ELSE <<>>)
            \o (IF Len(issueData.Commits.elems) > 0
                  THEN << <<"## Related Commits">> >>
                       \o [i \in 1..Len(commits) |->
                             <<"### Commit:", SubSeq(commits[i].sha, 1, 8)>>]
                  ELSE <<>>)
            \o (IF Len(issueData.Files.elems) > 0
                  THEN << <<"## Code Changes">> >>
                       \o [i \in 1..Len(issueData.Files.elems) |->
                             <<"### File:", issueData.Files.elems[i]>>]
                  ELSE <<>>)
            \o << <<"## Event Context">>,
                  <<"Event Type:", issueData.EventType>>,
                  <<"Action:", issueData.Action>> >> ]

\* Commits as the tracker returns them: with a full SHA, or without one.
FullSha  == <<"0", "1", "2", "3", "4", "5", "6", "7", "8", "9">>
PromptCommits ==
  { NilSlice, MkSlice(<<[sha |-> FullSha]>>), MkSlice(<<[sha |-> <<>>]>>) }

\* Enriched issues handed to buildPrompt: 0..MaxComments comments.
PromptIssueData ==
  { [ Issue |-> [number |-> 7, repository |-> Some(TheRepository)],
      Comments |-> IF n = 0 THEN NilSlice ELSE MkSlice(ListComments(n)),
      Commits |-> c,
      Files |-> NilSlice,
      Repository |-> Some(TheRepository),
      EventType |-> "issues",
      Action |-> "opened" ] : n \in 0..MaxComments, c \in PromptCommits }

\* Upper bound on the prompt constructions compared with one another.
MaxInvocations == 2

\* One more construction of the system and user prompt for the same issue
\* and style (SummarizeIssue, summarizer.go 105-117).
BuildPrompts ==
  /\ Len(bpRuns) < MaxInvocations
  /\ \E order \in RangeOrders(bpStyle.CustomFields) :
       bpRuns' = Append(bpRuns, [ user |-> buildPrompt(bpIssueData),
                                  system |-> buildSystemPrompt(bpStyle, order) ])
  /\ UNCHANGED <<bpIssueData, bpStyle, hookVars, cbVars, sigVars, parseVars,
                 renderVars, sendVars, styleVars, enrichVars, raceVars>>

----------------------------------------------------------------------------
(* Summarizer.SummarizeIssue and the detached task                         *)

FullObject ==
  Member("title", <<"T">>) @@ Member("summary", <<"S">>)
    @@ Member("priority", <<"high">>) @@ Member("category", <<"bug">>)
    @@ Member("suggested_fix", <<"Replace the problematic code">>)
    @@ Member("confidence", <<85>>)

\* Replies of the chat-completion backend to one request: a transport or API
\* error, a successful response with an empty choice list, or one choice
\* carrying text.
ChatReplies ==
  { [kind |-> "error", text |-> <<>>], [kind |-> "no_choice", text |-> <<>>] }
  \cup { [kind |-> "text", text |-> t] :
           t \in { <<FENCE, LANG, WS, Obj(FullObject), WS, FENCE>>,
                   <<Obj(Member("title", <<"T">>) @@ Member("summary", <<"S">>))>>,
                   <<Obj(Member("title", <<"T">>))>>,
                   <<JUNK>> } }

\* SummarizeIssue from the chat-completion request on, on one reply:
\* "api_error", "parse_error", "ok" with the summary, or "panic":
\* resp.Choices[0] is indexed without a length test (summarizer.go 148).
SummarizeIssue(reply) ==
  IF reply.kind = "error" THEN [res |-> "api_error", summary |-> None]
  ELSE IF reply.kind = "no_choice" THEN [res |-> "panic", summary |-> None]
  ELSE LET p == parseSummaryResponse(reply.text) IN
       IF p.err # "" THEN [res |-> "parse_error", summary |-> None]
       ELSE [res |-> "ok", summary |-> p.summary]

\* SummarizeIssue on the issue data (summarizer.go 102-163): buildPrompt runs
\* first, and when it panics no request is made ("prompt_panic").
SummarizeIssueData(issueData, reply) ==
  IF ShaSlicePanics(issueData) THEN [res |-> "prompt_panic", summary |-> None]
  ELSE SummarizeIssue(reply)

\* The goroutine has returned (or died): it holds nothing any more.
Finished(task, outcome) ==
  [task EXCEPT !.pc = "done", !.outcome = outcome, !.data = None, !.summary = None]

\* A variant in which the request is sent before the prompt is built.
StepsOfSummarizeRequestFirst(r) == <<"request", "prompt">>

\* The steps SummarizeIssue took before it returned r, or panicked.
StepsOfSummarize(r) ==
  IF r.res = "prompt_panic" THEN <<"prompt">> ELSE <<"prompt", "request">>

\* The task after SummarizeIssue returned r (part_001 309-314): one
\* chat-completion request was made unless the prompt could not be built; an
\* error ends the run.
AfterSummarize(task, r) ==
  LET made == IF r.res = "prompt_panic" THEN 0 ELSE 1
      t == [task EXCEPT !.chatCalls = @ + made, !.steps = @ \o StepsOfSummarize(r)]
  IN  IF r.res \in {"panic", "prompt_panic"} THEN Finished(t, "panic")
      ELSE IF r.res = "ok" THEN
        \* the commits are not read again
        [t EXCEPT !.pc = "summarized", !.summary = r.summary,
                  !.data = Some([ Issue |-> task.data[1].Issue,
                                  Repository |-> task.data[1].Repository ])]
      ELSE Finished(t, "summarize_failed")

\* The steps of the second half of ProcessIssue: the message is rendered,
\* then SendIssueSummary posts it unless it could not be converted.
StepsOfSend(sent) ==
  <<"render">> \o [i \in 1..Len(sent.posts) |-> "post"]

\* A variant that runs the send again after a failure.
AfterSendRetrying(task, sent) ==
  LET t == [task EXCEPT !.renders = @ + 1, !.posts = @ + Len(sent.posts),
                        !.steps = @ \o StepsOfSend(sent)] IN
  IF sent.err = "" THEN Finished(t, "success") ELSE t

\* The task after GenerateSlackMessage and SendIssueSummary (part_001
\* 316-337): the run ends whether the send succeeded or not.
AfterSend(task, sent) ==
  LET t == [task EXCEPT !.renders = @ + 1, !.posts = @ + Len(sent.posts),
                        !.steps = @ \o StepsOfSend(sent)] IN
  Finished(t, IF sent.err = "" THEN "success" ELSE "send_failed")

\* IssueProcessor.ProcessIssue, first half (part_001 309-314), run by the
\* goroutine started for request id.  A panic here is not recovered by
\* anyone: the process dies.
TaskSummarize(id) ==
  /\ ~crashed
  /\ tasks[id].pc = "spawned"
  /\ \E reply \in ChatReplies :
       LET r == SummarizeIssueData(tasks[id].data[1], reply) IN
       /\ crashed' = (r.res \in {"panic", "prompt_panic"})
       /\ tasks' = [tasks EXCEPT ![id] = AfterSummarize(tasks[id], r)]
  /\ UNCHANGED <<webhookSecret, nReq, cur, responses, sigVars, cbVars, parseVars,
                 renderVars, sendVars, promptVars, styleVars, enrichVars, raceVars>>

\* IssueProcessor.ProcessIssue, second half (part_001 316-337): render the
\* message and send it; the chat platform accepts the post or refuses it.
TaskSend(id) ==
  /\ ~crashed
  /\ tasks[id].pc = "summarized"
  /\ \E postOk \in BOOLEAN :
       LET slackMessage == GenerateSlackMessage(tasks[id].data[1], tasks[id].summary[1])
           sent         == SendIssueSummary(slackMessage, postOk)
       IN  tasks' = [tasks EXCEPT ![id] = AfterSend(tasks[id], sent)]
  /\ UNCHANGED <<webhookSecret, nReq, cur, responses, crashed, sigVars, cbVars, parseVars,
                 renderVars, sendVars, promptVars, styleVars, enrichVars, raceVars>>

----------------------------------------------------------------------------
(* Slack interactive callbacks: Notifier.HandleInteractiveMessage          *)

\* Upper bound on the callbacks of one run.
MaxCallbacks == 2

\* Upper bound on the length of a generated button value.
MaxValueLen == 3

\* Characters of generated button values: a name character, the separator,
\* two digits and a sign.
ValueAlphabet == {"r", ":", "4", "2", "-"}

\* The value of a decimal digit.
DigitValue ==
  [c \in {"0", "1", "2", "3", "4", "5", "6", "7", "8", "9"} |->
     CHOOSE d \in 0..9 : DigitChars[d + 1] = c]

\* "owner/repo:42"
ExampleValue ==
  <<"o", "w", "n", "e", "r", "/", "r", "e", "p", "o", ":", "4", "2">>

ButtonValues ==
  UNION { [1..n -> ValueAlphabet] : n \in 0..MaxValueLen } \cup {ExampleValue}

\* Index of the first c in s, 0 if there is none.
RECURSIVE IndexFrom(_, _, _)
IndexFrom(s, c, i) ==
  IF i > Len(s) THEN 0 ELSE IF s[i] = c THEN i ELSE IndexFrom(s, c, i + 1)

SplitN2AtLast(s, c) ==
  LET RECURSIVE LastFrom(_)
      LastFrom(i) == IF i = 0 THEN 0 ELSE IF s[i] = c THEN i ELSE LastFrom(i - 1)
      j == LastFrom(Len(s))
  IN  IF j = 0 THEN <<s>> ELSE <<SubSeq(s, 1, j - 1), SubSeq(s, j + 1, Len(s))>>

\* strings.SplitN(s, c, 2): cut at the first separator only.
SplitN2(s, c) ==
  LET j == IndexFrom(s, c, 1)
  IN  IF j = 0 THEN <<s>> ELSE <<SubSeq(s, 1, j - 1), SubSeq(s, j + 1, Len(s))>>

\* Decimal value of a digit string.
RECURSIVE DecimalOf(_)
DecimalOf(d) ==
  IF d = <<>> THEN 0
  ELSE 10 * DecimalOf(SubSeq(d, 1, Len(d) - 1)) + DigitValue[d[Len(d)]]

\* strconv.Atoi: an optional sign, then one or more digits.
Atoi(s) ==
  LET signed == s # <<>> /\ s[1] \in {"-", "+"}
      digits == IF signed THEN Tail(s) ELSE s
  IN  IF digits = <<>> \/ \E i \in DOMAIN digits : digits[i] \notin DOMAIN DigitValue
        THEN [ok |-> FALSE, n |-> 0]
      ELSE [ok |-> TRUE,
            n  |-> IF signed /\ s[1] = "-" THEN 0 - DecimalOf(digits) ELSE DecimalOf(digits)]

\* Handler.FetchEnrichedIssueData(ctx, repo, number): on success, the
\* enriched data of issue number of repo.
FetchEnrichedIssueData(repo, number, ok) ==
  IF ok THEN [data |-> Some([repo |-> repo, number |-> number]), err |-> FALSE]
  ELSE [data |-> None, err |-> TRUE]

ActionIDs == {"review_issue", "suggest_fix", "approve"}

\* block_actions entries: suggest_fix with every value, the others with the
\* value the notification's buttons carry.
BlockActions ==
  { [action_id |-> "suggest_fix", value |-> v] : v \in ButtonValues }
  \cup { [action_id |-> i, value |-> ExampleValue] : i \in ActionIDs }

\* A callback carries no action, one, or one followed by another.
ActionLists ==
  {<<>>} \cup { <<x>> : x \in BlockActions }
  \cup { <<x, [action_id |-> i, value |-> ExampleValue]>> :
           x \in BlockActions, i \in ActionIDs }

\* Requests to POST /webhook/slack.
CallbackRequests ==
  { [kind |-> k, channel |-> "", ts |-> "", actions |-> <<>>] :
      k \in {"bad_form", "no_payload", "bad_json"} }
  \cup { [kind |-> "callback", channel |-> "C1", ts |-> "171.42", actions |-> l] :
           l \in ActionLists }

\* A chat.postMessage call in the thread of the originating message.
ThreadPost(req, text, fix, ok) ==
  [channel |-> req.channel, ts |-> req.ts, text |-> text, fix |-> fix, ok |-> ok]

CallbackReturn(status, fetches, summaries, posts, panicked) ==
  [ status |-> status, fetchCalls |-> fetches, summarizeCalls |-> summaries,
    posts |-> posts, panicked |-> panicked ]

\* part_005 390 and 478: the status written when the review reply or the
\* suggested-fix reply cannot be posted.
PostFailureStatus == StatusInternalServerError

\* The suggest_fix branch (part_005 398-484).  env: whether the re-enrichment
\* succeeds, the chat-completion reply, whether a post succeeds.
SuggestFix(req, action, env) ==
  LET parts == SplitN2(action.value, ":") IN
  IF Len(parts) # 2 THEN
    CallbackReturn(StatusOK, <<>>, <<>>,
                   <<ThreadPost(req, "warn_parse_issue", "", env.postOk)>>, FALSE)
  ELSE
    LET repo   == parts[1]
        number == Atoi(parts[2])
    IN
    IF ~number.ok THEN
      CallbackReturn(StatusOK, <<>>, <<>>,
                     <<ThreadPost(req, "warn_parse_number", "", env.postOk)>>, FALSE)
    ELSE
      LET f       == FetchEnrichedIssueData(repo, number.n, env.fetchOk)
          fetches == << [repo |-> repo, number |-> number.n] >>
      IN
      IF f.err THEN
        CallbackReturn(StatusOK, fetches, <<>>,
                       <<ThreadPost(req, "warn_fetch", "", env.postOk)>>, FALSE)
      ELSE
        LET r         == SummarizeIssue(env.reply)
            summaries == << f.data[1] >>
        IN
        IF r.res = "panic" THEN
          CallbackReturn(0, fetches, summaries, <<>>, TRUE)
        ELSE IF r.res # "ok" THEN
          CallbackReturn(StatusOK, fetches, summaries,
                         <<ThreadPost(req, "warn_ai", "", env.postOk)>>, FALSE)
        ELSE
          CallbackReturn(IF env.postOk THEN StatusOK ELSE PostFailureStatus,
                         fetches, summaries,
                         <<ThreadPost(req, "suggested_fix", r.summary[1].SuggestedFix,
                                      env.postOk)>>, FALSE)

\* The whole handler on one request.  A status of 0 with panicked: the
\* handler wrote none (the router's Recovery middleware, part_001 165, then
\* answers for it).
InteractiveOutcome(req, env) ==
  IF req.kind # "callback" THEN CallbackReturn(StatusBadRequest, <<>>, <<>>, <<>>, FALSE)
  ELSE IF Len(req.actions) = 0 THEN CallbackReturn(StatusOK, <<>>, <<>>, <<>>, FALSE)
  ELSE
    LET action == req.actions[1] IN
    IF action.action_id = "review_issue" THEN
      CallbackReturn(IF env.postOk THEN StatusOK ELSE PostFailureStatus, <<>>, <<>>,
                     <<ThreadPost(req, "review_started", "", env.postOk)>>, FALSE)
    ELSE IF action.action_id = "suggest_fix" THEN SuggestFix(req, action, env)
    ELSE CallbackReturn(StatusOK, <<>>, <<>>, <<>>, FALSE)

DefaultReply == [kind |-> "error", text |-> <<>>]

\* The outcomes of the outside world that matter to a request.
CallbackEnvs(req) ==
  LET quiet == InteractiveOutcome(req, [fetchOk |-> TRUE, reply |-> DefaultReply, postOk |-> TRUE])
  IN  { e \in [fetchOk : BOOLEAN, reply : ChatReplies, postOk : BOOLEAN] :
          /\ (quiet.fetchCalls = <<>> => e.fetchOk)
          /\ (quiet.fetchCalls = <<>> \/ ~e.fetchOk => e.reply = DefaultReply)
          /\ (quiet.posts = <<>> /\ quiet.fetchCalls = <<>> => e.postOk)
          /\ (e.reply.kind = "no_choice" => e.postOk) }

\* POST /webhook/slack: one callback handled from parsing to return.
HandleInteractiveMessage ==
  /\ cb.id = 0
  /\ nCb < MaxCallbacks
  /\ \E req \in CallbackRequests :
     \E env \in CallbackEnvs(req) :
       /\ nCb' = nCb + 1
       /\ cb' = [id |-> nCb + 1, req |-> req, env |-> env, out |-> InteractiveOutcome(req, env)]
  /\ UNCHANGED <<hookVars, sigVars, parseVars,
               renderVars, sendVars, promptVars, styleVars, enrichVars, raceVars>>

\* The HTTP exchange is over: the per-callback record is discarded.
CompleteCallback ==
  /\ cb.id # 0
  /\ cb' = Idle
  /\ UNCHANGED <<nCb, hookVars, sigVars, parseVars,
               renderVars, sendVars, promptVars, styleVars, enrichVars, raceVars>>

----------------------------------------------------------------------------
(* The prompt style endpoints                                              *)

\* Upper bound on the style requests of one run.
MaxStyleRequests == 2

\* Bodies of POST /api/prompt-style: not JSON, JSON without "style", or JSON
\* naming a style.
StyleRequestNames ==
  DOMAIN PredefinedPromptStyles \cup {"", "unknown_style", "MASTER ANALYST"}

StyleRequestBodies ==
  { [json |-> FALSE, style |-> None], [json |-> TRUE, style |-> None] }
  \cup { [json |-> TRUE, style |-> Some(n)] : n \in StyleRequestNames }

\* c.ShouldBindJSON with binding:"required": the body decodes and "style" is
\* present and not the zero string.
ShouldBindJSON(body) ==
  IF body.json /\ body.style # None /\ body.style[1] # ""
    THEN [err |-> FALSE, Style |-> body.style[1]]
    ELSE [err |-> TRUE, Style |-> ""]

\* POST /api/prompt-style (part_001 194-218).
SetPromptStyle ==
  /\ nStyleReq < MaxStyleRequests
  /\ \E body \in StyleRequestBodies :
       LET request == ShouldBindJSON(body)
           found   == GetPromptStyle(request.Style)
       IN  /\ nStyleReq' = nStyleReq + 1
           /\ IF request.err THEN
                /\ style' = style
                /\ styleReq' = [ kind |-> "set", body |-> body, before |-> style,
                                 status |-> StatusBadRequest,
                                 reply |-> "Invalid request" ]
              ELSE IF found.exists THEN
                /\ style' = found.style
                /\ styleReq' = [ kind |-> "set", body |-> body, before |-> style,
                                 status |-> StatusOK, reply |-> request.Style ]
              ELSE
                /\ style' = style
                /\ styleReq' = [ kind |-> "set", body |-> body, before |-> style,
                                 status |-> StatusBadRequest,
                                 reply |-> "Invalid prompt style" ]
  /\ UNCHANGED <<cfgPromptStyle, hookVars, cbVars, sigVars, parseVars,
                 renderVars, sendVars, promptVars, enrichVars, raceVars>>

\* GET /api/prompt-styles (part_001 185-192).
ListStyles ==
  /\ nStyleReq < MaxStyleRequests
  /\ nStyleReq' = nStyleReq + 1
  /\ styleReq' = [ kind |-> "get", body |-> [json |-> FALSE, style |-> None],
                   before |-> style, status |-> StatusOK,
                   reply |-> cfgPromptStyle ]
  /\ UNCHANGED <<style, cfgPromptStyle, hookVars, cbVars, sigVars, parseVars,
                 renderVars, sendVars, promptVars, enrichVars, raceVars>>

\* The style the summarizer is constructed with (part_001 127-149).
InitialStyle(configured) ==
  IF GetPromptStyle(configured).exists THEN GetPromptStyle(configured).style
  ELSE DefaultPromptStyle

\* Values of OPENAI prompt style in the configuration.
ConfiguredStyles == {"", "master_analyst", "startup_focused", "no_such_style"}

----------------------------------------------------------------------------
(* A style change while a system prompt is being built                     *)
(* The POST handler runs in its own goroutine and SetPromptStyle assigns   *)
(* s.style without a lock, while SummarizeIssue, in the goroutine of a      *)
(* task, reads s.style once for every fragment of the system prompt.  The  *)
(* struct is assigned one field at a time.                                  *)

\* The fields of PromptStyle in the order of the struct.
StyleFields == <<"Personality", "AnalysisFocus", "Tone", "DetailLevel", "CustomFields">>

\* The number of fragments of a system prompt.
PromptFragments == 9

\* No assignment, and no construction, is under way.
NoStyleWrite == [pc |-> 0, value |-> DefaultPromptStyle]
NoSysPrompt  == [pc |-> 0, parts |-> <<>>, built |-> 0]

\* Names asked for while a prompt is being built.
RacingStyleNames == {"security_expert", "startup_focused"}

\* POST /api/prompt-style naming a catalog style: SetPromptStyle starts to
\* assign it (part_001 205-206, summarizer.go 97-99).
BeginSetPromptStyle ==
  /\ styleWrite.pc = 0
  /\ nStyleReq < MaxStyleRequests
  /\ \E name \in RacingStyleNames :
       /\ GetPromptStyle(name).exists
       /\ styleWrite' = [pc |-> 1, value |-> GetPromptStyle(name).style]
  /\ nStyleReq' = nStyleReq + 1
  /\ UNCHANGED <<style, cfgPromptStyle, styleReq, sysPrompt, hookVars, cbVars,
                 sigVars, parseVars, renderVars, sendVars, promptVars, enrichVars>>

\* The next field of s.style is stored.
StoreStyleField ==
  /\ styleWrite.pc \in DOMAIN StyleFields
  /\ style' = [style EXCEPT ![StyleFields[styleWrite.pc]] =
                               styleWrite.value[StyleFields[styleWrite.pc]]]
  /\ styleWrite' = [styleWrite EXCEPT !.pc = IF @ = Len(StyleFields) THEN 0 ELSE @ + 1]
  /\ UNCHANGED <<cfgPromptStyle, nStyleReq, styleReq, sysPrompt, hookVars, cbVars,
                 sigVars, parseVars, renderVars, sendVars, promptVars, enrichVars>>

\* SummarizeIssue calls getSystemPrompt (summarizer.go 116).
BeginSystemPrompt ==
  /\ sysPrompt.pc \in {0, PromptFragments + 1}
  /\ sysPrompt.built < MaxInvocations
  /\ sysPrompt' = [pc |-> 1, parts |-> <<>>, built |-> sysPrompt.built + 1]
  /\ UNCHANGED <<styleVars, styleWrite, hookVars, cbVars, sigVars, parseVars,
                 renderVars, sendVars, promptVars, enrichVars>>

\* buildSystemPrompt computes its next fragment from s.style as it is now.
\* After the last one the prompt is complete and goes into the request.
ReadStyleFragment ==
  /\ sysPrompt.pc \in 1..PromptFragments
  /\ \E order \in RangeOrders(style.CustomFields) :
       sysPrompt' = [sysPrompt EXCEPT
                       !.parts = Append(@, buildSystemPrompt(style, order)[sysPrompt.pc]),
                       !.pc = @ + 1]
  /\ UNCHANGED <<styleVars, styleWrite, hookVars, cbVars, sigVars, parseVars,
                 renderVars, sendVars, promptVars, enrichVars>>

----------------------------------------------------------------------------
(* Pure functions applied to drawn inputs                                  *)

\* verifySignature applied to the drawn secret, payload and header.
ApplyVerifySignature ==
  /\ vsResult = None
  /\ vsResult' = Some(verifySignature(vsSecret, vsPayload, vsSignature))
  /\ UNCHANGED <<vsSecret, vsPayload, vsSignature, hookVars, cbVars, parseVars,
               renderVars, sendVars, promptVars, styleVars, enrichVars, raceVars>>

\* parseSummaryResponse applied to the drawn reply text.
ApplyParseSummaryResponse ==
  /\ prResult = None
  /\ prResult' = Some(parseSummaryResponse(prResponse))
  /\ UNCHANGED <<prResponse, hookVars, cbVars, sigVars,
               renderVars, sendVars, promptVars, styleVars, enrichVars, raceVars>>

\* GenerateSlackMessage applied to the drawn issue data and summary.
ApplyGenerateSlackMessage ==
  /\ gsResult = None
  /\ gsResult' = Some(GenerateSlackMessage(gsIssueData, gsSummary))
  /\ UNCHANGED <<gsIssueData, gsSummary, hookVars, cbVars, sigVars, parseVars,
                 sendVars, promptVars, styleVars, enrichVars, raceVars>>

\* enrichIssueData applied to the drawn issue with the tracker answering as
\* drawn.
ApplyEnrichIssueData ==
  /\ enResult = None
  /\ enResult' = Some(enrichIssueData(enIssue, enAction, enEventType, enAnswer))
  /\ UNCHANGED <<enIssue, enAction, enEventType, enAnswer, hookVars, cbVars,
                 sigVars, parseVars, renderVars, sendVars, promptVars, styleVars, raceVars>>

\* SendIssueSummary applied to the drawn message.
ApplySendIssueSummary ==
  /\ sendResult = None
  /\ sendResult' = Some(SendIssueSummary(sendMessage, sendPostOk))
  /\ UNCHANGED <<sendMessage, sendPostOk, hookVars, cbVars, sigVars, parseVars,
                 renderVars, promptVars, styleVars, enrichVars, raceVars>>

----------------------------------------------------------------------------
(* Specifications                                                          *)

HookInit ==
  /\ webhookSecret \in {NoSecret, "test-secret"}
  /\ nReq = 0
  /\ cur = Idle
  /\ responses = [i \in 1..MaxRequests |-> 0]
  /\ tasks = [i \in 1..MaxRequests |-> NoTask]
  /\ crashed = FALSE

CbInit == nCb = 0 /\ cb = Idle

SigIdle ==
  /\ vsSecret = NoSecret /\ vsPayload = "p1" /\ vsSignature = <<>>
  /\ vsResult = Some(TRUE)

ParseIdle ==
  prResponse = <<>> /\ prResult = Some([err |-> "unmarshal", summary |-> None])

RenderIdle ==
  /\ gsIssueData = [Issue |-> [number |-> 7, repository |-> None], Repository |-> None]
  /\ gsSummary = ZeroSummary
  /\ gsResult = None

SendIdle ==
  /\ sendMessage = [hasBlocks |-> FALSE, goType |-> "", blocks |-> <<>>]
  /\ sendPostOk = TRUE
  /\ sendResult = None

PromptIdle ==
  /\ bpIssueData = [Issue |-> [number |-> 7, repository |-> None]]
  /\ bpStyle = DefaultPromptStyle
  /\ bpRuns = <<>>

StyleInit ==
  /\ cfgPromptStyle \in ConfiguredStyles
  /\ style = InitialStyle(cfgPromptStyle)
  /\ nStyleReq = 0
  /\ styleReq = Idle

StyleIdle == StyleInit /\ cfgPromptStyle = ""

RaceIdle == styleWrite = NoStyleWrite /\ sysPrompt = NoSysPrompt

EnrichIdle ==
  /\ enIssue = None /\ enAction = "opened" /\ enEventType = "issues"
  /\ enAnswer = NoAnswer
  /\ enResult = Some(enrichIssueData(None, "opened", "issues", NoAnswer))

\* The webhook pipeline.
Init ==
  /\ HookInit /\ CbInit /\ SigIdle /\ ParseIdle
  /\ RenderIdle /\ SendIdle /\ PromptIdle /\ StyleIdle /\ EnrichIdle /\ RaceIdle

Next ==
  \/ HandleWebhook
  \/ CompleteRequest
  \/ \E id \in 1..MaxRequests : TaskSummarize(id)
  \/ \E id \in 1..MaxRequests : TaskSend(id)

Spec == Init /\ [][Next]_vars

\* The interactive callbacks.
NextInteractive == HandleInteractiveMessage \/ CompleteCallback

SpecInteractive == Init /\ [][NextInteractive]_vars

\* No webhook, callback or style request is under way.
PipelineIdle == HookInit /\ webhookSecret = NoSecret /\ CbInit

\* verifySignature on every secret, payload and header.
InitVerify ==
  /\ PipelineIdle /\ ParseIdle /\ RenderIdle /\ SendIdle /\ PromptIdle /\ StyleIdle /\ EnrichIdle
  /\ RaceIdle
  /\ vsSecret \in Secrets \cup {NoSecret}
  /\ vsPayload \in Payloads
  /\ vsSignature \in Signatures
  /\ vsResult = None

SpecVerify == InitVerify /\ [][ApplyVerifySignature]_vars

\* parseSummaryResponse on every reply text.
InitParse ==
  /\ PipelineIdle /\ SigIdle /\ RenderIdle /\ SendIdle /\ PromptIdle /\ StyleIdle /\ EnrichIdle
  /\ RaceIdle
  /\ prResponse \in ModelTexts
  /\ prResult = None

SpecParse == InitParse /\ [][ApplyParseSummaryResponse]_vars

\* GenerateSlackMessage on every summary and issue.
InitRender ==
  /\ PipelineIdle /\ SigIdle /\ ParseIdle /\ SendIdle /\ PromptIdle /\ StyleIdle /\ EnrichIdle
  /\ RaceIdle
  /\ gsIssueData \in RenderIssueData
  /\ gsSummary \in RenderSummaries
  /\ gsResult = None

SpecRender == InitRender /\ [][ApplyGenerateSlackMessage]_vars

\* SendIssueSummary on every message, the post accepted or refused.
InitSend ==
  /\ PipelineIdle /\ SigIdle /\ ParseIdle /\ RenderIdle /\ PromptIdle /\ StyleIdle /\ EnrichIdle
  /\ RaceIdle
  /\ sendMessage \in Messages
  /\ sendPostOk \in BOOLEAN
  /\ sendResult = None

SpecSend == InitSend /\ [][ApplySendIssueSummary]_vars

\* Repeated prompt construction for every issue and predefined style.
InitPrompt ==
  /\ PipelineIdle /\ SigIdle /\ ParseIdle /\ RenderIdle /\ SendIdle /\ StyleIdle /\ EnrichIdle
  /\ RaceIdle
  /\ bpIssueData \in PromptIssueData
  /\ bpStyle \in { PredefinedPromptStyles[n] : n \in DOMAIN PredefinedPromptStyles }
  /\ bpRuns = <<>>

SpecPrompt == InitPrompt /\ [][BuildPrompts]_vars

\* The prompt style endpoints.
InitStyle ==
  /\ PipelineIdle /\ SigIdle /\ ParseIdle /\ RenderIdle /\ SendIdle /\ PromptIdle
  /\ EnrichIdle /\ RaceIdle /\ StyleInit

NextStyle == SetPromptStyle \/ ListStyles

SpecStyle == InitStyle /\ [][NextStyle]_vars

\* enrichIssueData on every issue, action, event type and tracker answer.
InitEnrich ==
  /\ PipelineIdle /\ SigIdle /\ ParseIdle /\ RenderIdle /\ SendIdle /\ PromptIdle
  /\ StyleIdle /\ RaceIdle
  /\ enIssue \in {None} \cup { Some(i) : i \in Issues }
  /\ \E e \in {<<"opened", "issues">>, <<"created", "issue_comment">>} :
       enAction = e[1] /\ enEventType = e[2]
  /\ enAnswer \in ApiAnswers
  /\ enResult = None

SpecEnrich == InitEnrich /\ [][ApplyEnrichIssueData]_vars

\* Style changes while system prompts are built.
NextStyleRace ==
  \/ BeginSetPromptStyle
  \/ StoreStyleField
  \/ BeginSystemPrompt
  \/ ReadStyleFragment

SpecStyleRace == InitStyle /\ [][NextStyleRace]_vars

----------------------------------------------------------------------------
(* Properties                                                              *)

\* C1: verifySignature with an empty configured secret returns true for
\* every payload and header; with a non-empty secret it returns true for the
\* header "sha256=" + hex(HMAC(secret, payload)), and false for a header
\* computed with a different secret or not starting with "sha256=".
C1_VerifySignature ==
  vsResult # None =>
    LET r == vsResult[1] IN
    /\ (vsSecret = NoSecret => r)
    /\ (vsSecret # NoSecret /\ vsSignature = generateSignature(vsSecret, vsPayload) => r)
    /\ (vsSecret # NoSecret
        /\ (\E s2 \in (Secrets \cup {NoSecret}) \ {vsSecret} :
              vsSignature = generateSignature(s2, vsPayload))
        => ~r)
    /\ (vsSecret # NoSecret /\ ~HasPrefix(vsSignature, Sha256Prefix) => ~r)

C1_Witness ==
  /\ vsResult = Some(FALSE)
  /\ vsSecret = "test-secret"
  /\ vsSignature = generateSignature("wrong-secret", vsPayload)

\* The request in hand was read and carries the signature GitHub computes with
\* the configured secret, or no secret is configured.
CorrectlySigned ==
  /\ cur.req.readable
  /\ \/ webhookSecret = NoSecret
     \/ cur.req.signature = generateSignature(webhookSecret, cur.req.body)

\* The request in hand did nothing beyond answering.
NothingElseDone ==
  /\ ~cur.out.decoded
  /\ ~cur.out.enriched
  /\ cur.out.calls = <<>>
  /\ cur.out.apiErrors = <<>>
  /\ cur.out.webhookMetrics = <<>>
  /\ cur.out.spawned = 0
  /\ tasks[cur.id] = NoTask

\* C2: with a non-empty configured secret, a request whose signature header
\* does not verify is answered 401 and nothing else is done for it: no
\* decoding, no tracker API call, no webhook metric, no background task.
C2_BadSignatureRejected ==
  ( /\ cur.id # 0
    /\ webhookSecret # NoSecret
    /\ cur.req.readable
    /\ cur.req.signature # generateSignature(webhookSecret, cur.req.body) )
  => /\ cur.out.status = 401
     /\ responses[cur.id] = 401
     /\ NothingElseDone

C2_Witness ==
  /\ cur.id # 0
  /\ webhookSecret # NoSecret
  /\ cur.req.signature = generateSignature("wrong-secret", cur.req.body)
  /\ cur.req.eventType = "issues"
  /\ cur.req.body.json
  /\ cur.out.status = 401

\* The allow-list as the specification gives it.
AllowListed(action) ==
  /\ action # None
  /\ action[1] \in {"opened", "edited", "reopened", "closed", "created", "updated"}

\* C3: for a decoded issues or issue_comment event, enrichment is attempted
\* if and only if the action is allow-listed; for any other or absent action
\* the normalizer yields "skipped", no tracker API call is made and no
\* summarization is started.
C3_AllowListGatesEnrichment ==
  ( /\ cur.id # 0
    /\ cur.out.decoded
    /\ cur.req.body.json )
  => /\ cur.out.enriched <=> AllowListed(cur.req.body.action)
     /\ ~AllowListed(cur.req.body.action) =>
          /\ cur.out.normStatus = "skipped"
          /\ cur.out.calls = <<>>
          /\ cur.out.spawned = 0
          /\ tasks[cur.id] = NoTask

C3_Witness ==
  /\ cur.id # 0
  /\ cur.req.eventType = "issue_comment"
  /\ cur.out.decoded
  /\ cur.req.body.json
  /\ cur.req.body.action = Some("deleted")
  /\ cur.out.normStatus = "skipped"

\* C4: a correctly signed issues or issue_comment request with a decodable
\* body and an action outside the allow-list completes normally: the answer
\* is 200 and exactly one webhook metric is recorded, with status "skipped".
C4_SkippedRecorded ==
  ( /\ cur.id # 0
    /\ CorrectlySigned
    /\ cur.req.eventType \in {"issues", "issue_comment"}
    /\ cur.req.body.json
    /\ ~AllowListed(cur.req.body.action) )
  => /\ cur.out.status = 200
     /\ ~cur.out.panicked
     /\ Len(cur.out.webhookMetrics) = 1
     /\ cur.out.webhookMetrics[1].status = "skipped"

\* C5: a correctly signed issues or issue_comment request whose body is not
\* decodable JSON is answered 500 and exactly one webhook metric is recorded,
\* with the event type, an empty action and status "error"; no enrichment
\* and no background task happen for it.
C5_DecodeErrorRecorded ==
  ( /\ cur.id # 0
    /\ CorrectlySigned
    /\ cur.req.eventType \in {"issues", "issue_comment"}
    /\ ~cur.req.body.json )
  => /\ cur.out.status = 500
     /\ cur.out.webhookMetrics =
          << [eventType |-> cur.req.eventType, action |-> "", status |-> "error"] >>
     /\ ~cur.out.enriched
     /\ cur.out.spawned = 0
     /\ tasks[cur.id] = NoTask

\* The request in hand is an accepted webhook.
Accepted ==
  /\ cur.id # 0
  /\ CorrectlySigned
  /\ cur.req.eventType \in {"issues", "issue_comment"}
  /\ cur.req.body.json
  /\ AllowListed(cur.req.body.action)
  /\ cur.req.body.issue # None

\* C6: an accepted webhook is answered 200 and its enriched issue is handed
\* to the issue processor exactly once, in a detached task; the answer of
\* every request that has a task is 200 whatever state or outcome the task
\* has reached.
C6_AcceptedAnsweredBeforeTask ==
  /\ \A id \in 1..MaxRequests :
       tasks[id].pc # "none" => responses[id] = 200
  /\ Accepted =>
       /\ cur.out.status = 200
       /\ responses[cur.id] = 200
       /\ cur.out.spawned = 1
       /\ cur.out.issueData # None
       /\ tasks[cur.id].pc # "none"

C6_Witness ==
  /\ Accepted
  /\ tasks[cur.id].pc = "done"
  /\ tasks[cur.id].outcome = "send_failed"
  /\ responses[cur.id] = 200

\* C7: a correctly signed request whose event type is neither issues nor
\* issue_comment is answered 200 with no decoding, no tracker API call, no
\* webhook metric and no background task.
C7_UnsupportedEventAcknowledged ==
  ( /\ cur.id # 0
    /\ CorrectlySigned
    /\ cur.req.eventType \notin {"issues", "issue_comment"} )
  => /\ cur.out.status = 200
     /\ responses[cur.id] = 200
     /\ NothingElseDone

C7_Witness ==
  /\ cur.id # 0
  /\ webhookSecret # NoSecret
  /\ CorrectlySigned
  /\ cur.req.eventType = "push"
  /\ ~cur.req.body.json
  /\ cur.out.status = 200

\* A decimal integer text: an optional sign, then one or more digits.
IsIntegerText(t) ==
  LET d == IF t # <<>> /\ t[1] \in {"-", "+"} THEN Tail(t) ELSE t
  IN  d # <<>> /\ \A i \in DOMAIN d : d[i] \in {"0", "1", "2", "3", "4", "5", "6", "7", "8", "9"}

\* Position of the separator of a value "<repo>:<integer>" (the repository
\* holding no ':'), 0 if the value has not that form.
SeparatorOf(v) ==
  IF \E j \in DOMAIN v :
       /\ v[j] = ":"
       /\ \A i \in 1..(j - 1) : v[i] # ":"
       /\ IsIntegerText(SubSeq(v, j + 1, Len(v)))
  THEN CHOOSE j \in DOMAIN v : v[j] = ":" /\ \A i \in 1..(j - 1) : v[i] # ":"
  ELSE 0

\* The callback in hand is a suggest_fix on a well-formed value.
WellFormedSuggestFix ==
  /\ cb.req.kind = "callback"
  /\ Len(cb.req.actions) > 0
  /\ cb.req.actions[1].action_id = "suggest_fix"
  /\ SeparatorOf(cb.req.actions[1].value) # 0

\* C8: one callback makes exactly one re-enrichment call, followed by exactly
\* one re-summarization call when the enrichment succeeds, if its first action
\* is suggest_fix with a value "<repo>:<integer>", both for that repository
\* and number ("owner/repo" and 42 for "owner/repo:42"); in every other case
\* it makes none of either, and for a malformed suggest_fix value it posts
\* one threaded warning reply.
C8_SuggestFixCalls ==
  cb.id # 0 =>
    /\ WellFormedSuggestFix =>
         LET v      == cb.req.actions[1].value
             j      == SeparatorOf(v)
             target == [repo |-> SubSeq(v, 1, j - 1), number |-> cb.out.fetchCalls[1].number]
         IN  /\ Len(cb.out.fetchCalls) = 1
             /\ cb.out.fetchCalls[1].repo = SubSeq(v, 1, j - 1)
             /\ v = ExampleValue =>
                  cb.out.fetchCalls[1] =
                    [repo |-> <<"o", "w", "n", "e", "r", "/", "r", "e", "p", "o">>, number |-> 42]
             /\ v = <<":", "-", "4">> => cb.out.fetchCalls[1].number = 0 - 4
             /\ v = <<"r", ":", "2">> => cb.out.fetchCalls[1].number = 2
             /\ cb.env.fetchOk => cb.out.summarizeCalls = <<target>>
             /\ ~cb.env.fetchOk => cb.out.summarizeCalls = <<>>
    /\ ~WellFormedSuggestFix =>
         /\ cb.out.fetchCalls = <<>>
         /\ cb.out.summarizeCalls = <<>>
    /\ ( /\ cb.req.kind = "callback"
         /\ Len(cb.req.actions) > 0
         /\ cb.req.actions[1].action_id = "suggest_fix"
         /\ ~WellFormedSuggestFix ) =>
         /\ Len(cb.out.posts) = 1
         /\ cb.out.posts[1].text \in {"warn_parse_issue", "warn_parse_number"}
         /\ cb.out.posts[1].channel = cb.req.channel
         /\ cb.out.posts[1].ts = cb.req.ts

C8_Witness ==
  /\ cb.id # 0
  /\ WellFormedSuggestFix
  /\ cb.req.actions[1].value = ExampleValue
  /\ cb.env.fetchOk
  /\ Len(cb.out.fetchCalls) = 1
  /\ Len(cb.out.summarizeCalls) = 1

\* C9: a callback whose form and payload parse is answered 200 whatever the
\* business outcome, one whose form or payload is missing or unparseable is
\* answered 400, and no other status is ever returned.
C9_CallbackStatus ==
  cb.id # 0 =>
    /\ cb.req.kind = "callback" => cb.out.status = 200
    /\ cb.req.kind # "callback" => cb.out.status = 400
    /\ cb.out.status \in {200, 400}

\* The JSON object a reply text carries, None if it carries none.
ObjectOf(text) ==
  IF \E i \in DOMAIN text : text[i].t = "obj"
    THEN Some(text[CHOOSE i \in DOMAIN text : text[i].t = "obj"].v)
    ELSE None

\* A string member of an object is missing or empty.
MissingOrEmpty(o, key) == key \notin DOMAIN o \/ o[key] = ""

\* C10: parseSummaryResponse returns an error and no summary whenever the
\* title or the summary of the reply is missing or empty, whatever other
\* members the reply carries.
C10_RequiredFields ==
  ( /\ prResult # None
    /\ \/ ObjectOf(prResponse) = None
       \/ MissingOrEmpty(ObjectOf(prResponse)[1], "title")
       \/ MissingOrEmpty(ObjectOf(prResponse)[1], "summary") )
  => /\ prResult[1].err # ""
     /\ prResult[1].summary = None

C10_Witness ==
  /\ prResult # None
  /\ ObjectOf(prResponse) # None
  /\ DOMAIN ObjectOf(prResponse)[1] =
       {"title", "priority", "category", "action_items", "code_context",
        "suggested_fix", "confidence"}
  /\ ObjectOf(prResponse)[1]["title"] = "T"
  /\ prResult[1].err = "missing_required"

\* The reply parsed, its object and the summary returned for it.
ParsedOk       == prResult # None /\ prResult[1].err = "" /\ ObjectOf(prResponse) # None
ReplyObject    == ObjectOf(prResponse)[1]
ParsedSummary  == prResult[1].summary[1]
\* The struct as json.Unmarshal leaves it, before the defaults.
DecodedSummary == jsonUnmarshal(<<Obj(ReplyObject)>>).summary

\* A string member is supplied with a non-empty value.
SuppliedText(o, key) == key \in DOMAIN o /\ o[key] # ""

AllEightSupplied(o) ==
  /\ DOMAIN o = {"title", "summary", "priority", "category", "action_items",
                 "code_context", "suggested_fix", "confidence"}
  /\ \A k \in {"title", "summary", "priority", "category", "code_context",
               "suggested_fix"} : o[k] # ""
  /\ o["action_items"].elems # <<>>
  /\ o["confidence"] # 0

\* C12: for a reply carrying all eight schema keys with non-empty, non-zero
\* values, every field of the returned summary equals the value supplied under
\* its key, and no default is substituted.
C12_AllKeysKept ==
  (ParsedOk /\ AllEightSupplied(ReplyObject)) =>
    LET o == ReplyObject
        s == ParsedSummary
    IN  /\ s.Title = o["title"]
        /\ s.Summary = o["summary"]
        /\ s.Priority = o["priority"]
        /\ s.Category = o["category"]
        /\ s.ActionItems = o["action_items"]
        /\ s.CodeContext = o["code_context"]
        /\ s.SuggestedFix = o["suggested_fix"]
        /\ s.Confidence = o["confidence"]

\* Code-fenced replies: an opening fence with or without the language tag,
\* the object, a closing fence.
Fenced(o) ==
  { <<FENCE, LANG, WS, Obj(o), WS, FENCE>>, <<FENCE, WS, Obj(o), WS, FENCE>> }

\* C13: a valid summary object wrapped in a markdown code fence, with or
\* without the json language tag, parses to the same result as the bare object.
C13_FenceStripped ==
  ( /\ prResult # None
    /\ ObjectOf(prResponse) # None
    /\ prResponse \in Fenced(ReplyObject)
    /\ parseSummaryResponse(<<Obj(ReplyObject)>>).err = "" )
  => prResult[1] = parseSummaryResponse(<<Obj(ReplyObject)>>)

\* C14: one ProcessIssue run makes at most one chat-completion request and at
\* most one chat-platform post and retries neither: a failed summarization is
\* followed by no rendering and no post, a failed post is not repeated, and a
\* run that succeeds has posted exactly once.
C14_NoRetry ==
  \A id \in 1..MaxRequests :
    LET t == tasks[id] IN
    /\ t.chatCalls <= 1 /\ t.renders <= 1 /\ t.posts <= 1
    /\ t.outcome = "summarize_failed" =>
         t.pc = "done" /\ t.chatCalls = 1 /\ t.renders = 0 /\ t.posts = 0
    /\ t.outcome = "send_failed" => t.pc = "done" /\ t.chatCalls = 1 /\ t.posts <= 1
    /\ t.outcome = "success" =>
         t.pc = "done" /\ t.chatCalls = 1 /\ t.renders = 1 /\ t.posts = 1
    /\ t.pc \in {"none", "spawned"} => t.chatCalls = 0 /\ t.posts = 0

\* One run ended on a refused post and another one succeeded.
C14_Witness ==
  /\ \E id \in 1..MaxRequests :
       tasks[id].outcome = "send_failed" /\ tasks[id].posts = 1
  /\ \E id \in 1..MaxRequests :
       tasks[id].outcome = "success" /\ tasks[id].posts = 1

\* A block of an unsupported or malformed type.
BadBlockType(b) ==
  ~b.isMap \/ b.type = None \/ b.type[1] \notin {"header", "section", "actions"}

\* The kind of block the chat platform receives for a document block.
KindCorresponds(posted, b) ==
  \/ posted.kind = b.type[1]
  \/ /\ b.type[1] = "actions"       \* an actions block without a button
     /\ posted.kind = "section"
     /\ \A i \in DOMAIN b.elements[1] : b.elements[1][i].type # "button"

\* C15: SendIssueSummary is all-or-nothing: a block of an unsupported or
\* malformed type makes the send fail with nothing posted; a post is made only
\* when every block converted, and its blocks then correspond one-to-one and
\* in order to the blocks of the document.
C15_AllOrNothing ==
  sendResult # None =>
    LET r   == sendResult[1]
        doc == sendMessage.blocks
    IN  /\ (\E i \in DOMAIN doc : BadBlockType(doc[i])) =>
             r.err # "" /\ r.posts = <<>>
        /\ (\E i \in DOMAIN doc : convertBlock(doc[i]).err) =>
             r.err # "" /\ r.posts = <<>>
        /\ r.posts # <<>> =>
             /\ Len(r.posts) = 1
             /\ Len(r.posts[1].blocks) = Len(doc)
             /\ \A i \in DOMAIN doc :
                  /\ ~BadBlockType(doc[i])
                  /\ r.posts[1].blocks[i] = convertBlock(doc[i]).block[1]
                  /\ KindCorresponds(r.posts[1].blocks[i], doc[i])
        /\ r.err = "" => Len(r.posts) = 1

\* A document whose last block has an unsupported type, after two blocks that
\* convert, was refused without a post.
C15_Witness ==
  /\ sendResult # None
  /\ Len(sendMessage.blocks) = 3
  /\ sendMessage.blocks[3].type = Some("divider")
  /\ ~convertBlock(sendMessage.blocks[1]).err
  /\ ~convertBlock(sendMessage.blocks[2]).err
  /\ sendResult[1].err = "convert"
  /\ sendResult[1].posts = <<>>

\* The comment entries of a user prompt, as the creation times they show.
CommentTimesIn(parts) ==
  { parts[i][3] : i \in { j \in DOMAIN parts : parts[j][1] = "### Comment by" } }

CommentEntriesIn(parts) ==
  Cardinality({ j \in DOMAIN parts : parts[j][1] = "### Comment by" })

\* The creation times of the k most recent of the comments.
MostRecent(comments, k) ==
  { t \in { comments[i].createdAt : i \in DOMAIN comments } :
      Cardinality({ i \in DOMAIN comments : comments[i].createdAt > t }) < k }

\* C16: for an issue with n > 5 comments the user prompt contains exactly 5
\* comment entries, those of the 5 most recent comments; for n <= 5 it
\* contains all n.
C16_RecentComments ==
  \A r \in DOMAIN bpRuns :
    ~bpRuns[r].user.panicked =>
      LET parts    == bpRuns[r].user.parts
          comments == bpIssueData.Comments.elems
          n        == Len(comments)
      IN  /\ CommentEntriesIn(parts) = IF n > 5 THEN 5 ELSE n
          /\ CommentTimesIn(parts) = MostRecent(comments, 5)

\* C17: prompt construction is deterministic: any two constructions for the
\* same issue and the same style produce identical system prompts and
\* identical user prompts.
C17_Deterministic ==
  \A i, j \in DOMAIN bpRuns :
    /\ bpRuns[i].system = bpRuns[j].system
    /\ bpRuns[i].user = bpRuns[j].user

\* The type of the i-th block of a rendered message, and the label of a text
\* section.
BlockTypeAt(msg, i) == msg.blocks[i].type
SectionLabelAt(msg, i) == msg.blocks[i].text[1].text[1][1]
SectionBodyAt(msg, i) == msg.blocks[i].text[1].text[1][2]

\* C18: GenerateSlackMessage returns exactly 6 blocks in the order header,
\* fields section, summary section, action-items section, code-context
\* section, actions block; empty action items are rendered as "None
\* specified" inside the action-items section and never remove a block.
C18_SixBlocks ==
  gsResult # None =>
    LET msg == gsResult[1] IN
    /\ msg.hasBlocks
    /\ Len(msg.blocks) = 6
    /\ BlockTypeAt(msg, 1) = Some("header")
    /\ BlockTypeAt(msg, 2) = Some("section") /\ msg.blocks[2].fields # None
    /\ BlockTypeAt(msg, 3) = Some("section") /\ SectionLabelAt(msg, 3) = "*Summary:*"
    /\ BlockTypeAt(msg, 4) = Some("section") /\ SectionLabelAt(msg, 4) = "*Action Items:*"
    /\ BlockTypeAt(msg, 5) = Some("section") /\ SectionLabelAt(msg, 5) = "*Code Context:*"
    /\ BlockTypeAt(msg, 6) = Some("actions")
    /\ gsSummary.ActionItems.elems = <<>> =>
         SectionBodyAt(msg, 4) = <<"None specified">>
    /\ gsSummary.ActionItems.elems # <<>> =>
         Len(SectionBodyAt(msg, 4)) = Len(gsSummary.ActionItems.elems)

\* A summary without action items has been rendered.
C18_Witness ==
  /\ gsResult # None
  /\ gsSummary.ActionItems = MkSlice(<<>>)
  /\ Len(gsResult[1].blocks) = 6
  /\ SectionBodyAt(gsResult[1], 4) = <<"None specified">>

\* The glyph tables as the specification of the header gives them.
PriorityGlyph(p) ==
  CASE p = "high" -> "red_circle" [] p = "medium" -> "yellow_circle"
    [] p = "low" -> "green_circle" [] OTHER -> "clipboard"

CategoryGlyph(c) ==
  CASE c = "bug" -> "bug" [] c = "feature" -> "sparkles"
    [] c = "enhancement" -> "rocket" [] c = "documentation" -> "books"
    [] c = "security" -> "lock" [] c = "performance" -> "zap"
    [] c = "infrastructure" -> "building_construction"
    [] OTHER -> "clipboard"

HeaderText(msg) == msg.blocks[1].text[1].text[1]

\* C19: the header text carries the glyph of the summary's priority and the
\* glyph of its category; a priority outside {high, medium, low} or a category
\* outside the table gets the generic glyph on that axis only.
C19_HeaderGlyphs ==
  gsResult # None =>
    /\ HeaderText(gsResult[1])[1] = PriorityGlyph(gsSummary.Priority)
    /\ HeaderText(gsResult[1])[2] = CategoryGlyph(gsSummary.Category)

\* An unrecognized priority was rendered next to a recognized category.
C19_Witness ==
  /\ gsResult # None
  /\ gsSummary.Priority = "urgent"
  /\ gsSummary.Category = "bug"
  /\ HeaderText(gsResult[1])[1] = "clipboard"
  /\ HeaderText(gsResult[1])[2] = "bug"

\* The names of the predefined catalog.
CatalogNames ==
  { "master_analyst", "senior_developer", "devops_engineer", "product_manager",
    "security_expert", "executive_summary", "quick_triage", "performance_focused",
    "educational", "startup_focused", "enterprise_focused", "security_critical" }

\* C20: the set-style endpoint changes the summarizer's current style only
\* when the requested name is in the predefined catalog; a request naming an
\* unknown style is rejected with 400 and leaves the current style as it was.
C20_SetStyle ==
  (styleReq # Idle /\ styleReq.kind = "set") =>
    IF /\ styleReq.body.json
       /\ styleReq.body.style # None
       /\ styleReq.body.style[1] \in CatalogNames
    THEN /\ styleReq.status = 200
         /\ style = PredefinedPromptStyles[styleReq.body.style[1]]
    ELSE /\ styleReq.status = 400
         /\ style = styleReq.before

\* An unknown name was refused after the style had been changed.
C20_Witness ==
  /\ styleReq # Idle
  /\ styleReq.kind = "set"
  /\ styleReq.body.style = Some("unknown_style")
  /\ styleReq.status = 400
  /\ nStyleReq = 2
  /\ style = PredefinedPromptStyles["security_critical"]
  /\ cfgPromptStyle = ""

\* The steps of one webhook in the order the specification gives them.
PipelineOrder == <<"enrichment", "prompt", "request", "render", "post">>

IsPrefixOf(p, q) == Len(p) <= Len(q) /\ SubSeq(q, 1, Len(p)) = p

\* The place of a tracker call in the enrichment: the comments fetch, the
\* commit search, the resolutions, the file fetch.
CallRank(call) ==
  CASE call.op = "ListComments" -> 1 [] call.op = "SearchCommits" -> 2
    [] call.op = "GetCommit" -> 3 [] call.op = "GetCommitFiles" -> 4

CountOf(seq, x) == Cardinality({ i \in DOMAIN seq : seq[i] = x })

\* C21: within one accepted webhook the steps happen in the order enrichment
\* (comments fetch, then commit search and resolution, then file fetch),
\* prompt construction, model request, rendering, platform post: the tracker
\* calls of the enrichment are made in that order, the task exists only once
\* the enrichment has returned, and the steps taken so far are always an
\* initial part of the order, one step at a time.
C21_StepOrder ==
  /\ \A id \in 1..MaxRequests :
       LET t == tasks[id] IN
       /\ IsPrefixOf(t.steps, PipelineOrder)
       /\ t.pc # "none" => t.steps # <<>> /\ t.steps[1] = "enrichment"
       /\ t.pc = "spawned" => t.steps = <<"enrichment">>
       /\ t.pc = "summarized" => t.steps = <<"enrichment", "prompt", "request">>
       /\ CountOf(t.steps, "request") = t.chatCalls
       /\ CountOf(t.steps, "render") = t.renders
       /\ CountOf(t.steps, "post") = t.posts
  /\ cur.id # 0 =>
       LET calls == cur.out.calls IN
       /\ tasks[cur.id].pc # "none" => cur.out.enriched /\ Len(calls) >= 2
       /\ cur.out.enriched /\ cur.out.issueData # None =>
            /\ Len(calls) >= 2
            /\ calls[1].op = "ListComments"
            /\ calls[2].op = "SearchCommits"
       /\ \A i, j \in DOMAIN calls : i < j => CallRank(calls[i]) <= CallRank(calls[j])
       /\ \A i, j \in DOMAIN calls :
            (i # j /\ calls[i].op = calls[j].op) => calls[i].op = "GetCommit"

\* The second webhook has been taken through all five steps while the task
\* of the first one, accepted before it, has not built its prompt yet.
C21_Witness ==
  /\ tasks[1].pc = "spawned"
  /\ tasks[1].steps = <<"enrichment">>
  /\ tasks[2].pc = "done"
  /\ tasks[2].steps = PipelineOrder

\* C22: no outcome of an external call made while handling one event (a
\* tracker, model or chat-platform error, a model reply without a choice, an
\* unparseable reply, a resolved commit whose SHA is shorter than 8
\* characters) terminates the process: the process never dies, and no task
\* ends in a panic.
C22_FailuresConfined ==
  /\ ~crashed
  /\ \A id \in 1..MaxRequests : tasks[id].outcome # "panic"

\* enrichIssueData has been applied to a non-nil issue; its result, the
\* issue data it returned and the tracker calls it made.
Enriched     == enResult # None /\ enIssue # None
EnrichResult == enResult[1]
EnrichedData == enResult[1].data[1]
CallsOf(op)  == { i \in DOMAIN enResult[1].calls : enResult[1].calls[i].op = op }

\* The commit search hits the tracker resolved.
ResolvedHits == { i \in DOMAIN enAnswer.hits : enAnswer.hits[i] }

\* The error metrics a result records for an operation.
ApiErrorsFor(operation) == CountOf(EnrichResult.apiErrors, operation)

\* What holds of every enrichment of a non-nil issue: no error is returned,
\* each of the comments fetch and the commit search is made exactly once, a
\* failed one records one metric for its operation and leaves its field
\* empty, and the file fetch is made at most once.
BestEffortCommon ==
  /\ ~EnrichResult.err
  /\ EnrichResult.data # None
  /\ Cardinality(CallsOf("ListComments")) = 1
  /\ Cardinality(CallsOf("SearchCommits")) = 1
  /\ Cardinality(CallsOf("GetCommitFiles")) <= 1
  /\ ApiErrorsFor("fetch_comments") = (IF enAnswer.commentsOk THEN 0 ELSE 1)
  /\ ApiErrorsFor("fetch_commits") = (IF enAnswer.searchOk THEN 0 ELSE 1)
  /\ ApiErrorsFor("fetch_files") =
       (IF CallsOf("GetCommitFiles") # {} /\ ~enAnswer.filesOk THEN 1 ELSE 0)
  /\ Len(EnrichResult.apiErrors) =
       ApiErrorsFor("fetch_comments") + ApiErrorsFor("fetch_commits")
         + ApiErrorsFor("fetch_files")
  /\ (EnrichedData.Comments.elems = <<>>) <=> ~enAnswer.commentsOk
  /\ Len(EnrichedData.Commits.elems) = Cardinality(ResolvedHits)
  /\ ~enAnswer.searchOk => EnrichedData.Commits.elems = <<>>
  /\ (EnrichedData.Files.elems # <<>>) <=>
       (CallsOf("GetCommitFiles") # {} /\ enAnswer.filesOk)

\* C23 as stated: enrichIssueData with a non-nil issue returns an IssueData
\* without error whatever fetch fails; a failed fetch records exactly one
\* error metric for its operation, leaves only its own field empty and does
\* not prevent the fetches after it from being attempted: after a failed
\* comments fetch the commit search is made, and after a failed commit search
\* the file fetch is made; no fetch is retried.
C23_BestEffort ==
  Enriched =>
    /\ BestEffortCommon
    /\ ~enAnswer.commentsOk => CallsOf("SearchCommits") # {}
    /\ ~enAnswer.searchOk => CallsOf("GetCommitFiles") # {}

\* C23, amended: as stated for the comments fetch and the file fetch; the
\* file fetch is attempted exactly when a commit was resolved, so a failed
\* commit search, which resolves none, leaves commits and files both empty
\* and is followed by no file fetch.  Nothing is attempted twice.
C23_BestEffortAmended ==
  Enriched =>
    /\ BestEffortCommon
    /\ ~enAnswer.commentsOk => CallsOf("SearchCommits") # {}
    /\ (CallsOf("GetCommitFiles") # {}) <=> (ResolvedHits # {})
    /\ ~enAnswer.searchOk =>
         /\ CallsOf("GetCommitFiles") = {}
         /\ EnrichedData.Commits.elems = <<>>
         /\ EnrichedData.Files.elems = <<>>

\* The comments fetch failed, a commit was resolved and the file fetch failed.
C23_Witness ==
  /\ Enriched
  /\ ~enAnswer.commentsOk /\ ResolvedHits # {} /\ ~enAnswer.filesOk
  /\ ~EnrichResult.err
  /\ EnrichResult.apiErrors = <<"fetch_comments", "fetch_files">>
  /\ EnrichedData.Commits.elems # <<>>

\* The first search hit the tracker resolved.
FirstResolved == CHOOSE i \in ResolvedHits : \A j \in ResolvedHits : i <= j

\* C24: the file diff is fetched if and only if at least one commit was
\* resolved, and then for the first resolved commit; the commits field holds,
\* in the order of the hits, exactly the commits of the at most 10 search
\* hits whose resolution succeeded; a failed resolution records no error
\* metric and every hit after it is still resolved.
C24_FileFetch ==
  Enriched =>
    LET commits == EnrichedData.Commits.elems
        calls   == EnrichResult.calls
    IN  /\ (CallsOf("GetCommitFiles") # {}) <=> (ResolvedHits # {})
        /\ ResolvedHits # {} =>
             /\ commits[1].hit = FirstResolved
             /\ calls[Len(calls)] = [op |-> "GetCommitFiles", sha |-> commits[1].sha]
             /\ ~enAnswer.shortSha => calls[Len(calls)].sha = ShaOf(FirstResolved)
             /\ enAnswer.filesOk =>
                  EnrichedData.Files.elems = << <<"file", commits[1].sha>> >>
        /\ Len(enAnswer.hits) <= 10
        /\ Len(commits) = Cardinality(ResolvedHits)
        /\ \A k \in DOMAIN commits : commits[k].hit \in ResolvedHits
        /\ \A k, l \in DOMAIN commits : k < l => commits[k].hit < commits[l].hit
        \* every hit is resolved once, in order, whatever failed before it
        /\ enAnswer.searchOk =>
             /\ Cardinality(CallsOf("GetCommit")) = Len(enAnswer.hits)
             /\ \A i \in DOMAIN enAnswer.hits :
                  calls[2 + i] = [op |-> "GetCommit", sha |-> ShaOf(i)]
        \* no metric for a resolution
        /\ \A i \in DOMAIN EnrichResult.apiErrors :
             EnrichResult.apiErrors[i] \in {"fetch_comments", "fetch_commits", "fetch_files"}
        /\ (enAnswer.commentsOk /\ enAnswer.searchOk /\ enAnswer.filesOk) =>
             EnrichResult.apiErrors = <<>>

\* The first hit did not resolve and the second did: the file diff of the
\* second was fetched and no error metric was recorded.
C24_Witness ==
  /\ Enriched
  /\ Len(enAnswer.hits) >= 3
  /\ ~enAnswer.hits[1] /\ enAnswer.hits[2] /\ ~enAnswer.hits[3]
  /\ ~enAnswer.shortSha
  /\ EnrichResult.calls[Len(EnrichResult.calls)] =
       [op |-> "GetCommitFiles", sha |-> ShaOf(2)]
  /\ EnrichResult.apiErrors = <<>>

\* C25: in every IssueData produced by enrichment, comments, commits and
\* files are each a (possibly empty) sequence and never nil, including when
\* the corresponding fetch failed or was not attempted.
C25_NeverNil ==
  Enriched =>
    /\ ~EnrichedData.Comments.isNil
    /\ ~EnrichedData.Commits.isNil
    /\ ~EnrichedData.Files.isNil

\* C26: whenever normalization and enrichment of a webhook succeed (status
\* "success"), the IssueData handed to the pipeline has both its issue and
\* its repository present, for every decodable payload with an allow-listed
\* action, including payloads whose issue object carries no repository.
C26_RepositoryPresent ==
  (cur.id # 0 /\ cur.out.normStatus = "success") =>
    /\ cur.out.issueData # None
    /\ cur.out.issueData[1].Issue = cur.req.body.issue[1]
    /\ cur.out.issueData[1].Repository # None
    /\ tasks[cur.id].pc = "spawned" => tasks[cur.id].data[1].Repository # None

\* The one reply of the callback in hand is posted in the thread of the
\* originating message.
OneThreadedReply ==
  /\ Len(cb.out.posts) = 1
  /\ cb.out.posts[1].channel = cb.req.channel
  /\ cb.out.posts[1].ts = cb.req.ts

\* C27: in a suggest_fix callback with a well-formed value, a failure of
\* re-enrichment or of re-summarization results in exactly one threaded
\* warning reply and no error propagated to the platform (the answer is 200);
\* when re-enrichment fails summarization is not called; when both succeed
\* exactly one threaded reply carrying the summary's suggested fix is posted,
\* to the channel and thread of the originating message.
C27_SuggestFixFailures ==
  (cb.id # 0 /\ WellFormedSuggestFix) =>
    LET r == SummarizeIssue(cb.env.reply) IN
    /\ ~cb.env.fetchOk =>
         /\ OneThreadedReply
         /\ cb.out.posts[1].text = "warn_fetch"
         /\ cb.out.status = 200
         /\ cb.out.summarizeCalls = <<>>
    /\ (cb.env.fetchOk /\ r.res # "ok") =>
         /\ OneThreadedReply
         /\ cb.out.posts[1].text = "warn_ai"
         /\ cb.out.status = 200
         /\ ~cb.out.panicked
    /\ (cb.env.fetchOk /\ r.res = "ok") =>
         /\ OneThreadedReply
         /\ cb.out.posts[1].text = "suggested_fix"
         /\ cb.out.posts[1].fix = r.summary[1].SuggestedFix

\* The buttons of a rendered notification and the repository name it shows.
ButtonsOf(msg) == msg.blocks[6].elements[1]
RenderedRepoName ==
  IF gsIssueData.Repository # None THEN gsIssueData.Repository[1].fullName
  ELSE UnknownRepository

\* What the suggest_fix handler does with a button value when the tracker,
\* the model and the chat platform all answer.
SuggestFixOn(v) ==
  LET action == [action_id |-> "suggest_fix", value |-> v]
  IN  SuggestFix([kind |-> "callback", channel |-> "C1", ts |-> "171.42",
                  actions |-> <<action>>],
                 action,
                 [fetchOk |-> TRUE, reply |-> DefaultReply, postOk |-> TRUE])

\* C28: for every repository full name that contains no ':' and every issue
\* number, the button value written by GenerateSlackMessage is
\* "<repoFullName>:<issueNumber>" and the suggest_fix handler parses it back
\* into the same repository name and the same issue number; both buttons of
\* one notification carry the same value.
C28_ButtonValueRoundTrip ==
  gsResult # None =>
    LET buttons == ButtonsOf(gsResult[1])
        v       == buttons[1].value
        name    == RenderedRepoName
        number  == gsIssueData.Issue.number
    IN  /\ Len(buttons) = 2
        /\ buttons[1].action_id = "review_issue"
        /\ buttons[2].action_id = "suggest_fix"
        /\ buttons[2].value = v
        /\ SubSeq(v, 1, Len(name) + 1) = name \o <<":">>
        /\ (\A i \in DOMAIN name : name[i] # ":") =>
             /\ SplitN2(v, ":")[1] = name
             /\ Atoi(SplitN2(v, ":")[2]) = [ok |-> TRUE, n |-> number]
             /\ SuggestFixOn(v).fetchCalls = << [repo |-> name, number |-> number] >>

\* The notification of issue 42 of owner/repo has been rendered: its buttons
\* carry "owner/repo:42".
C28_Witness ==
  /\ gsResult # None
  /\ gsIssueData.Issue.number = 42
  /\ ButtonsOf(gsResult[1])[2].value = ExampleValue
  /\ SuggestFixOn(ExampleValue).fetchCalls[1].number = 42

\* The styles that can be the current one: the startup default and the
\* styles of the catalog.
CurrentStyles ==
  {DefaultPromptStyle} \cup { PredefinedPromptStyles[n] : n \in DOMAIN PredefinedPromptStyles }

\* C29: every system prompt sent to the model is composed entirely from one
\* PromptStyle value that was the current style at some instant: a completed
\* prompt is the prompt of one style, and never combines fragments of two.
C29_PromptFromOneStyle ==
  sysPrompt.pc = PromptFragments + 1 =>
    \E st \in CurrentStyles :
      \E order \in RangeOrders(st.CustomFields) :
        sysPrompt.parts = buildSystemPrompt(st, order)

\* C30: after any sequence of set-style requests, the current_style that
\* the list-styles endpoint reports names the style the summarizer is using:
\* the style of the last successful set-style request, or the startup style.
\* A reported name stands for the style that startup selects for that name.
C30_CurrentStyleReported ==
  (styleReq # Idle /\ styleReq.kind = "get") =>
    InitialStyle(styleReq.reply) = style

====
